---- MODULE Spec2Model ----
(***************************************************************************)
(* Model of the API-key authentication layer of the log ingestion server:  *)
(* AuthService (in-memory key cache in front of the api_keys table), the   *)
(* per-request AuthMiddleware, the administrative GenerateAPIKey and       *)
(* RevokeAPIKey operations and the detached usage-update goroutines.       *)
(*                                                                         *)
(* Every request is served by its own goroutine; AuthService has no lock,  *)
(* so the goroutines interleave at each access of the shared fields        *)
(* apiKeys and lastSync.  A task's pc names the statement it is executing. *)
(* Time is counted in minutes.                                             *)
(***************************************************************************)
EXTENDS Integers, Sequences, FiniteSets, TLC

\* ---------------------------------------------------------------- bounds
MaxTicks == 2
MaxPending == 2
\* cfg.RateLimitBurst and cfg.RateLimitRequestsPerMinute of the modelled run
RateLimitBurst == 2
RateLimitRequestsPerMinute == 1
\* rows of analytics_logs
MaxRows == 3
\* the width of int in the model (the build has 64 bits)
IntBits == 16

\* ------------------------------------------------------ program constants
FreshMinutes == 5
\* the clock advances by half a freshness window (rounded up) at a time
TickMinutes == (FreshMinutes + 1) \div 2
StatusUnauthorized == 401
StatusInternalServerError == 500
StatusTooManyRequests == 429
StatusBadRequest == 400
StatusOK == 200
DefaultPage == 1
DefaultPageSize == 50
MaxPageSize == 1000
StatusCreated == 201
StatusConflict == 409
\* maxBatchSize := 1000
maxBatchSize == 1000

\* time.Time{} : the zero value lastSync has after NewAuthService
ZeroTime == 0 - 1000
\* ExpiresAt == nil
NoExpiry == 0 - 1
\* a *models.APIKey that is nil / a table without a row for the hash
NoRow == [is_active |-> FALSE, expires_at |-> 0 - 2]

Tasks == {"t1", "t2"}
\* the clients that send requests (remote addresses)
Clients == {"c1", "c2"}
Hashes == {"Ha", "Hb"}
\* cfg.APIKeys
ConfigKeys == <<"ka">>
\* keys GenerateAPIKey can come up with
GenKeys == {"kb"}
\* expires_at values of rows and of GenerateAPIKey calls
ExpiryTimes == {NoExpiry, 1}

\* An Authorization header value: "Bearer " \o rest when bearer, else rest.
NoAuth == [bearer |-> FALSE, rest |-> ""]
AuthHeaders ==
    { NoAuth,
      [bearer |-> TRUE,  rest |-> "ka"],
      [bearer |-> TRUE,  rest |-> "kb"],
      [bearer |-> FALSE, rest |-> "kb"] }
XKeyHeaders == {"", "ka", "kb"}
\* the headers of the clients of the concurrent specification
BearerHeaders == {a \in AuthHeaders : a.bearer}

VARIABLES
    now,        \* wall clock, minutes
    phase,      \* "boot", "serving", "fatal" (logrus.Fatalf), "crashed"
    storeUp,    \* the database answers queries
    api_keys,   \* table api_keys: key_hash -> row (or NoRow)
    apiKeys,    \* AuthService.apiKeys : map[string]bool
    lastSync,   \* AuthService.lastSync
    task,       \* request goroutines
    adm,        \* the goroutine running GenerateAPIKey / RevokeAPIKey
    pending,    \* spawned usage-update goroutines that have not run yet
    failing,    \* usage goroutines whose update failed, about to log it
    last,       \* the request the latest step completed, with its response
    presented,  \* keys of GenKeys that some request has presented
    validated,  \* hashes accepted at bootstrap or by a store lookup, not revoked since
    expiredSeen, \* hashes rejected as expired, no valid store lookup since
    booted,     \* a run of InitializeAPIKeys has returned nil
    revoked,    \* hashes a call of RevokeAPIKey has returned for, while no
                \* request was in flight, in this run of the process
    tokens,     \* rate.Limiter: tokens in the bucket
    limLast,    \* rate.Limiter: the time tokens was last updated
    sent,       \* per client: requests it has sent so far, up to RateLimitBurst
    logs,       \* the table analytics_logs, in the order of id
    freq,       \* the request GET /logs/filter is handling, and its response
    scan,       \* the pages a client has collected with one query
    ireq        \* the request POST /ingest or /batch-ingest is handling

vars == <<now, phase, storeUp, api_keys, apiKeys, lastSync, task, adm,
          pending, failing, last, presented, validated, expiredSeen, booted,
          revoked, tokens, limLast, sent, logs, freq, scan, ireq>>

\* the state of the authentication service and its store
authVars == <<now, phase, storeUp, api_keys, apiKeys, lastSync, task, adm,
              pending, failing, last, presented, validated, expiredSeen, booted,
              revoked>>

\* the log table and the requests that read it
filt == <<logs, freq, scan, ireq>>

\* the state of RateLimitMiddleware and of its clients
limiter == <<tokens, limLast, sent>>

\* ------------------------------------------------------------- helpers

\* sha256 of the key, hex encoded: a fixed injective map on the keys used
hashAPIKey(key) ==
    CASE key = "ka" -> "Ha"
      [] key = "kb" -> "Hb"

NoResp == [status |-> 0, error |-> "", message |-> ""]

\* stale: isValidCachedKey found the cache stale; afterExpired: the key had
\* been rejected as expired when the request arrived
IdleTask ==
    [pc |-> "idle", auth |-> NoAuth, xkey |-> "", key |-> "", hash |-> "",
     stale |-> FALSE, afterExpired |-> FALSE]

\* What the step that completes a request records of it: its headers, key and hash, the
\* response, whether the protected handler ran (c.Next), the number of
\* GetAPIKey calls it made and whether the cache answered.
Done(rec, resp, ran, n, viaCache) ==
    [client |-> "", auth |-> rec.auth, xkey |-> rec.xkey, key |-> rec.key,
     hash |-> rec.hash,
     resp |-> resp, next |-> ran, lookups |-> n, hit |-> viaCache]

NoRequest == [client |-> "", auth |-> NoAuth, xkey |-> "", key |-> "",
              hash |-> "",
              resp |-> NoResp, next |-> FALSE, lookups |-> 0, hit |-> FALSE]

\* extractAPIKey: the Authorization header wins whenever it is non-empty
extractAPIKey(auth, xkey) ==
    IF auth.bearer \/ auth.rest # ""
    THEN auth.rest          \* TrimPrefix(auth, "Bearer ") or auth itself
    ELSE xkey

\* apiKeys[keyHash] of a Go map[string]bool: false when the key is absent
MapGet(m, h) == h \in DOMAIN m /\ m[h]

\* m[h] = v
MapSet(m, h, v) == [x \in (DOMAIN m) \cup {h} |-> IF x = h THEN v ELSE m[x]]

\* delete(m, h)
MapDelete(m, h) == [x \in (DOMAIN m) \ {h} |-> m[x]]

\* GetAPIKey with a query error taken for sql.ErrNoRows
GetAPIKey_ErrorAsNoRows(up, store, h) ==
    IF up /\ store[h] # NoRow /\ store[h].is_active
    THEN [row |-> store[h], err |-> FALSE]
    ELSE [row |-> NoRow, err |-> FALSE]

\* GetAPIKey: SELECT ... WHERE key_hash = $1 AND is_active = true.
\* sql.ErrNoRows gives (nil, nil), any other error (nil, err).
GetAPIKey(up, store, h) ==
    IF ~up THEN [row |-> NoRow, err |-> TRUE]
    ELSE IF store[h] # NoRow /\ store[h].is_active
         THEN [row |-> store[h], err |-> FALSE]
         ELSE [row |-> NoRow, err |-> FALSE]

\* the expiry test with After in the place of Before
IsExpired_After(row, t) == row.expires_at # NoExpiry /\ row.expires_at > t

\* dbKey.ExpiresAt != nil && dbKey.ExpiresAt.Before(time.Now())
IsExpired(row, t) == row.expires_at # NoExpiry /\ row.expires_at < t

\* InsertAPIKey: INSERT INTO api_keys ...; key_hash is UNIQUE.  ok is FALSE
\* when the store is down or refuses the insert.  (usage_count and last_used_at are columns
\* that no statement of the program reads; the row leaves them out.)
InsertAPIKey(up, store, h, active, exp) ==
    IF ~up \/ store[h] # NoRow
    THEN [ok |-> FALSE, store |-> store]
    ELSE [ok |-> TRUE,
          store |-> [store EXCEPT ![h] = [is_active |-> active,
                                          expires_at |-> exp]]]

\* The loop of InitializeAPIKeys from the i-th configured key on.
RECURSIVE InitKeysFrom(_, _, _, _)
InitKeysFrom(i, store, cache, up) ==
    IF i > Len(ConfigKeys) THEN [store |-> store, cache |-> cache, err |-> FALSE]
    ELSE LET keyHash == hashAPIKey(ConfigKeys[i])
             existingKey == GetAPIKey(up, store, keyHash)
         IN
         IF existingKey.err
         THEN [store |-> store, cache |-> cache, err |-> TRUE]
         ELSE IF existingKey.row = NoRow
              THEN LET ins == InsertAPIKey(up, store, keyHash, TRUE, NoExpiry) IN
                   IF ~ins.ok
                   THEN [store |-> store, cache |-> cache, err |-> TRUE]
                   ELSE InitKeysFrom(i + 1, ins.store,
                                     MapSet(cache, keyHash, TRUE), up)
              ELSE InitKeysFrom(i + 1, store, MapSet(cache, keyHash, TRUE), up)

ConfigHashes == {hashAPIKey(ConfigKeys[i]) : i \in 1..Len(ConfigKeys)}

\* rows the table may hold when the process starts
InitRows ==
    {NoRow} \cup
    { [is_active |-> TRUE, expires_at |-> e] : e \in ExpiryTimes } \cup
    { [is_active |-> FALSE, expires_at |-> NoExpiry] }

\* two accesses of the same field conflict when at least one writes
CacheReaders == {t \in Tasks : task[t].pc = "cache"}
CacheWriters == {t \in Tasks : task[t].pc = "insert"}
                  \cup (IF adm.pc = "genCache" THEN {"adm"} ELSE {})
SyncReaders == {t \in Tasks : task[t].pc = "sync"}
SyncWriters == {t \in Tasks : task[t].pc = "refresh"}

MapRace ==
    \/ Cardinality(CacheWriters) >= 2
    \/ CacheWriters # {} /\ CacheReaders # {}

SyncRace ==
    \/ Cardinality(SyncWriters) >= 2
    \/ SyncWriters # {} /\ SyncReaders # {}

\* The Go memory model gives a racing access of a map or of a multiword
\* value no meaning.  Besides the outcomes of either order and the end of the
\* process (RuntimeFatal), a racing access can be torn:

\* as.apiKeys[keyHash] read while another goroutine writes the map may miss
\* an entry the map holds
MapRead(h) ==
    {MapGet(apiKeys, h)} \cup (IF CacheWriters # {} THEN {FALSE} ELSE {})

\* the map after the write of m by goroutine w (m is the map with the write
\* applied): a write made while another goroutine writes the map may be lost
MapWrite(w, m) ==
    {m} \cup (IF CacheWriters \ {w} # {} THEN {apiKeys} ELSE {})

\* time.Since(as.lastSync) > 5*time.Minute, lastSync read while another
\* goroutine assigns it (time.Time is three words)
SyncRead ==
    {now - lastSync > FreshMinutes}
       \cup (IF SyncWriters # {} THEN BOOLEAN ELSE {})

Min(a, b) == IF a <= b THEN a ELSE b

\* ------------------------------------------------------- analytics logs

\* a column that holds no value (user_id, session_id, app_version and the
\* JSON path properties->'tags'->>'provider' may be NULL)
SqlNull == "<NULL>"

\* the events the clients send: the columns InsertLog writes, apart from
\* event_id
LogInputs ==
    { [timestamp |-> 1, event_type |-> "error", event_name |-> "n1",
       user_id |-> "u1", session_id |-> "s1", app_version |-> "v1",
       priority |-> "normal", provider |-> "p1"],
      [timestamp |-> 2, event_type |-> "telemetry", event_name |-> "n1",
       user_id |-> "u1", session_id |-> "s2", app_version |-> "v1",
       priority |-> "high", provider |-> SqlNull] }

\* event_id is UNIQUE: the id the client gives to its n-th event
EventIds == <<"e9", "e8", "e7", "e6", "e5">>

\* the order of the text values (the collation of the columns)
Collation ==
    <<"e5", "e6", "e7", "e8", "e9", "error", "high", "n1", "n2", "normal",
      "s1", "s2", "telemetry", "u1", "u2", "v1", "v2">>

Collate(v) == CHOOSE i \in DOMAIN Collation : Collation[i] = v

\* ------------------------------------------------ query string of a request

\* a query parameter that is a time: the layout of its text and the instant
\* the text denotes
NoTimeParam == [layout |-> "", at |-> 0]
TimeParam(layout, at) == [layout |-> layout, at |-> at]

\* the request without any query parameter
BaseQuery ==
    [event_type |-> "", event_name |-> "", user_id |-> "", session_id |-> "",
     app_version |-> "", priority |-> "", provider_name |-> "",
     sort_by |-> "", sort_order |-> "", page |-> <<>>, page_size |-> <<>>,
     start_time |-> NoTimeParam, end_time |-> NoTimeParam]

\* requests that filter on one column, and on three columns at once
ColumnQueries ==
    {[BaseQuery EXCEPT !.event_type = v] : v \in {"error", "telemetry", "behavioral"}}
    \cup {[BaseQuery EXCEPT !.event_name = v] : v \in {"n1", "n2"}}
    \cup {[BaseQuery EXCEPT !.user_id = v] : v \in {"u1", "u2"}}
    \cup {[BaseQuery EXCEPT !.session_id = v] : v \in {"s1", "s2"}}
    \cup {[BaseQuery EXCEPT !.app_version = v] : v \in {"v1", "v2"}}
    \cup {[BaseQuery EXCEPT !.priority = v] : v \in {"normal", "high"}}
    \cup {[BaseQuery EXCEPT !.provider_name = v] : v \in {"p1", "p2"}}
    \cup {[BaseQuery EXCEPT !.event_type = a, !.user_id = b, !.provider_name = c] :
            a \in {"", "error", "telemetry"}, b \in {"", "u1", "u2"},
            c \in {"", "p1"}}

\* requests with a time range
TimeQueries ==
    {[BaseQuery EXCEPT !.start_time = s, !.end_time = e] :
        s \in {NoTimeParam, TimeParam("RFC3339", 0), TimeParam("RFC3339", TickMinutes)},
        e \in {NoTimeParam, TimeParam("RFC3339", 0), TimeParam("RFC3339", TickMinutes)}}
    \cup {[BaseQuery EXCEPT !.start_time = TimeParam("RFC3339", TickMinutes),
                            !.priority = "high"]}

\* requests with parameters the handler refuses
InvalidQueries ==
    {[BaseQuery EXCEPT !.start_time = s, !.end_time = e, !.event_type = a,
                       !.priority = p] :
        s \in {NoTimeParam, TimeParam("RFC3339", 0), TimeParam("DateOnly", 0)},
        e \in {NoTimeParam, TimeParam("UnixSeconds", TickMinutes)},
        a \in {"", "bogus"},
        p \in {"", "low"}}
    \cup {[BaseQuery EXCEPT !.event_type = "Error"],
          [BaseQuery EXCEPT !.priority = "HIGH"],
          [BaseQuery EXCEPT !.start_time = TimeParam("RFC1123", 0)]}

\* validSortFields
ValidSortFields ==
    {"id", "event_id", "timestamp", "event_type", "event_name", "user_id",
     "session_id", "app_version", "priority", "created_at"}

\* requests that choose the order
SortQueries ==
    {[BaseQuery EXCEPT !.sort_by = c, !.sort_order = o] :
        c \in ValidSortFields \cup {"properties", "ID", "id; DROP TABLE analytics_logs"},
        o \in {"asc"}}
    \cup {[BaseQuery EXCEPT !.sort_by = c] : c \in {"id", "priority", "Id"}}
    \cup {[BaseQuery EXCEPT !.sort_by = "id", !.sort_order = o] :
            o \in {"ASC", "Asc", "aSC", "asC", "desc", "DESC", "Desc", "up",
                   "ascending"}}

\* requests that choose the page
DigitChars == <<"0", "1", "2", "3", "4", "5", "6", "7", "8", "9">>

DigitValue(ch) == (CHOOSE i \in DOMAIN DigitChars : DigitChars[i] = ch) - 1

RECURSIVE Itoa(_)
\* strconv.Itoa for n >= 0
Itoa(n) ==
    IF n < 10 THEN <<DigitChars[n + 1]>>
    ELSE Itoa(n \div 10) \o <<DigitChars[(n % 10) + 1]>>

\* the values of the Go type int: IntBits bits, two's complement
MaxInt == 2^(IntBits - 1) - 1
MinInt == 0 - 2^(IntBits - 1)

\* the result of an int operation whose mathematical value is n
WrapInt(n) == ((n - MinInt) % 2^IntBits) + MinInt

\* a page number that is a quarter of the range of int, plus one
QuarterPage == 2^(IntBits - 2) + 1

\* requests for a page far beyond the table, and one whose page is not an int
HugePageQueries ==
    {[BaseQuery EXCEPT !.page = Itoa(QuarterPage), !.page_size = s,
                       !.sort_by = "id"] : s \in {<<"3">>, <<"4">>}}
    \cup {[BaseQuery EXCEPT !.page = Itoa(MaxInt + 1), !.page_size = <<"1">>,
                            !.sort_by = "id"]}

PageQueries ==
    {[BaseQuery EXCEPT !.page = p, !.page_size = s, !.sort_by = c] :
        p \in {<<>>, <<"0">>, <<"1">>, <<"2">>, <<"3">>, <<"x">>},
        s \in {<<>>, <<"0">>, <<"1">>, <<"2">>, <<"1", "0", "0", "1">>, <<"2", "x">>},
        c \in {"id"}}
    \cup {[BaseQuery EXCEPT !.page = <<"-", "1">>],
          [BaseQuery EXCEPT !.page = <<"+", "2">>, !.page_size = <<"1">>],
          [BaseQuery EXCEPT !.page_size = <<"1", "0", "0", "0">>],
          [BaseQuery EXCEPT !.page_size = <<"-", "2">>]}
    \cup HugePageQueries

\* the requests about which rows match
FilterQueries == ColumnQueries \cup TimeQueries \cup InvalidQueries

\* the requests about the order and the page
OrderQueries == SortQueries \cup PageQueries

\* ----------------------------------------------- GET /api/v1/logs/filter

RECURSIVE ParseDigits(_, _)
ParseDigits(s, acc) ==
    IF s = <<>> THEN acc
    ELSE ParseDigits(Tail(s), acc * 10 + DigitValue(Head(s)))

\* strconv.Atoi: an optional sign, then decimal digits and nothing else;
\* ErrRange when the number is not a value of int
Atoi(s) ==
    LET signed == s # <<>> /\ Head(s) \in {"+", "-"}
        body   == IF signed THEN Tail(s) ELSE s
        isNum  == /\ body # <<>>
                  /\ \A i \in DOMAIN body :
                        \E d \in DOMAIN DigitChars : DigitChars[d] = body[i]
        n      == IF signed /\ Head(s) = "-"
                  THEN 0 - ParseDigits(body, 0) ELSE ParseDigits(body, 0)
    IN IF ~isNum THEN [ok |-> FALSE, n |-> 0]
       ELSE IF n > MaxInt THEN [ok |-> FALSE, n |-> MaxInt]
       ELSE IF n < MinInt THEN [ok |-> FALSE, n |-> MinInt]
       ELSE [ok |-> TRUE, n |-> n]

\* time.Parse with a layout that takes every text
ParseRFC3339_AnyLayout(param) == [ok |-> TRUE, t |-> param.at]

\* time.Parse(time.RFC3339, param)
ParseRFC3339(param) ==
    IF param.layout = "RFC3339" THEN [ok |-> TRUE, t |-> param.at]
    ELSE [ok |-> FALSE, t |-> 0]

\* page := 1, replaced by a page parameter that parses and is positive
PageOf(q) ==
    IF q.page # <<>> /\ Atoi(q.page).ok /\ Atoi(q.page).n > 0
    THEN Atoi(q.page).n ELSE DefaultPage

\* pageSize := 50, replaced by a page_size parameter that parses and lies in
\* 1..1000
PageSizeOf(q) ==
    IF q.page_size # <<>> /\ Atoi(q.page_size).ok
         /\ Atoi(q.page_size).n > 0 /\ Atoi(q.page_size).n <= MaxPageSize
    THEN Atoi(q.page_size).n ELSE DefaultPageSize

\* a *time.Time of LogFilter
NilTime == [set |-> FALSE, t |-> 0]
TimePtr(t) == [set |-> TRUE, t |-> t]

\* database.LogFilter as the handler fills it
LogFilter(q) ==
    [EventType |-> q.event_type, EventName |-> q.event_name,
     UserID |-> q.user_id, SessionID |-> q.session_id,
     AppVersion |-> q.app_version, Priority |-> q.priority,
     ProviderName |-> q.provider_name,
     StartTime |-> IF q.start_time # NoTimeParam /\ ParseRFC3339(q.start_time).ok
                   THEN TimePtr(ParseRFC3339(q.start_time).t) ELSE NilTime,
     EndTime   |-> IF q.end_time # NoTimeParam /\ ParseRFC3339(q.end_time).ok
                   THEN TimePtr(ParseRFC3339(q.end_time).t) ELSE NilTime,
     Limit |-> PageSizeOf(q),
     Offset |-> WrapInt((PageOf(q) - 1) * PageSizeOf(q)),
     SortBy |-> q.sort_by, SortOrder |-> q.sort_order]

\* validTypes
ValidTypes == {"behavioral", "telemetry", "observability", "error", "performance"}

\* the parameter checks without the check of event_type
QueryError_NoTypeCheck(q) ==
    IF q.start_time # NoTimeParam /\ ~ParseRFC3339(q.start_time).ok
    THEN "invalid_start_time"
    ELSE IF q.end_time # NoTimeParam /\ ~ParseRFC3339(q.end_time).ok
    THEN "invalid_end_time"
    ELSE IF q.priority # "" /\ q.priority # "normal" /\ q.priority # "high"
    THEN "invalid_priority"
    ELSE ""

\* the parameter checks of the handler, in its order: the code of the first
\* check that fails, "" when all pass
QueryError(q) ==
    IF q.start_time # NoTimeParam /\ ~ParseRFC3339(q.start_time).ok
    THEN "invalid_start_time"
    ELSE IF q.end_time # NoTimeParam /\ ~ParseRFC3339(q.end_time).ok
    THEN "invalid_end_time"
    ELSE IF q.event_type # "" /\ q.event_type \notin ValidTypes
    THEN "invalid_event_type"
    ELSE IF q.priority # "" /\ q.priority # "normal" /\ q.priority # "high"
    THEN "invalid_priority"
    ELSE ""

\* one condition of the WHERE clause with its argument
Cond(col, op, arg) == [col |-> col, op |-> op, arg |-> arg]

EqCond(col, v) == IF v # "" THEN <<Cond(col, "=", v)>> ELSE <<>>

\* GetFilteredLogs: conditions and args, in the order they are appended
Conditions(filter) ==
    EqCond("event_type", filter.EventType)
      \o EqCond("event_name", filter.EventName)
      \o EqCond("user_id", filter.UserID)
      \o EqCond("session_id", filter.SessionID)
      \o EqCond("app_version", filter.AppVersion)
      \o EqCond("priority", filter.Priority)
      \o EqCond("provider", filter.ProviderName)
      \o (IF filter.StartTime.set
          THEN <<Cond("created_at", ">=", filter.StartTime.t)>> ELSE <<>>)
      \o (IF filter.EndTime.set
          THEN <<Cond("created_at", "<=", filter.EndTime.t)>> ELSE <<>>)

\* the row satisfies the condition (a comparison with NULL is not true)
Holds(cond, row) ==
    CASE cond.op = "="  -> row[cond.col] # SqlNull /\ row[cond.col] = cond.arg
      [] cond.op = ">=" -> row[cond.col] >= cond.arg
      [] cond.op = "<=" -> row[cond.col] <= cond.arg

\* GetFilteredLogs with the conditions joined by OR
Where_Or(conds, row) ==
    conds = <<>> \/ \E i \in DOMAIN conds : Holds(conds[i], row)

\* WHERE strings.Join(conditions, " AND "); no WHERE clause without conditions
Where(conds, row) == \A i \in DOMAIN conds : Holds(conds[i], row)

\* sortBy that stays at its default
SortByOf_Default(filter) == "created_at"

\* sortBy: filter.SortBy when validSortFields holds it, created_at otherwise
SortByOf(filter) ==
    IF filter.SortBy # "" /\ filter.SortBy \in ValidSortFields
    THEN filter.SortBy ELSE "created_at"

\* sortOrder: ASC for "ASC" and "asc", DESC otherwise
SortOrderOf(filter) ==
    IF filter.SortOrder = "ASC" \/ filter.SortOrder = "asc" THEN "ASC" ELSE "DESC"

\* a piece of query text; ph is the number n of a placeholder $n that ends
\* the piece, 0 when it has none
Tok(txt, ph) == [txt |-> txt, ph |-> ph]

\* an element of args: a string, a time.Time or an int
StrArg(v) == [kind |-> "string", s |-> v, n |-> 0]
TimeArg(t) == [kind |-> "time", s |-> "", n |-> t]
IntArg(n) == [kind |-> "int", s |-> "", n |-> n]

\* a condition built with the value written into the text of the query
AddCond_Inline(st, present, txt, arg) ==
    IF present
    THEN [st EXCEPT !.conditions = Append(@, Tok(txt \o " '" \o arg.s \o "'", 0))]
    ELSE st

\* if <field present> { conditions = append(conditions,
\* fmt.Sprintf("<txt> $%d", argIndex)); args = append(args, <value>);
\* argIndex++ }
AddCond(st, present, txt, arg) ==
    IF present
    THEN [conditions |-> Append(st.conditions, Tok(txt, st.argIndex)),
          args       |-> Append(st.args, arg),
          argIndex   |-> st.argIndex + 1]
    ELSE st

\* conditions, args and argIndex after the nine if statements
FilterConds(filter) ==
    LET s0 == [conditions |-> <<>>, args |-> <<>>, argIndex |-> 1]
        s1 == AddCond(s0, filter.EventType # "", "event_type = $",
                      StrArg(filter.EventType))
        s2 == AddCond(s1, filter.EventName # "", "event_name = $",
                      StrArg(filter.EventName))
        s3 == AddCond(s2, filter.UserID # "", "user_id = $",
                      StrArg(filter.UserID))
        s4 == AddCond(s3, filter.SessionID # "", "session_id = $",
                      StrArg(filter.SessionID))
        s5 == AddCond(s4, filter.AppVersion # "", "app_version = $",
                      StrArg(filter.AppVersion))
        s6 == AddCond(s5, filter.Priority # "", "priority = $",
                      StrArg(filter.Priority))
        s7 == AddCond(s6, filter.ProviderName # "",
                      "properties->'tags'->>'provider' = $",
                      StrArg(filter.ProviderName))
        s8 == AddCond(s7, filter.StartTime.set, "created_at >= $",
                      TimeArg(filter.StartTime.t))
    IN AddCond(s8, filter.EndTime.set, "created_at <= $",
               TimeArg(filter.EndTime.t))

RECURSIVE JoinAnd(_)
\* conditions[0] + " AND " + conditions[1] + ...
JoinAnd(conds) ==
    IF Len(conds) = 1 THEN conds
    ELSE <<Head(conds), Tok("AND", 0)>> \o JoinAnd(Tail(conds))

\* whereClause
WhereClause(conds) ==
    IF Len(conds) > 0 THEN <<Tok("WHERE", 0)>> \o JoinAnd(conds) ELSE <<>>

\* countQuery and query with their arguments, as GetFilteredLogs hands them
\* to the store
QueryText(filter) ==
    LET st == FilterConds(filter)
        where == WhereClause(st.conditions)
        limitClause ==
            <<Tok("ORDER BY", 0), Tok(SortByOf(filter), 0),
              Tok(SortOrderOf(filter), 0), Tok("LIMIT $", st.argIndex)>>
        withOffset == filter.Offset > 0
    IN [countQuery |-> <<Tok("SELECT COUNT(*) FROM analytics_logs", 0)>> \o where,
        countArgs  |-> st.args,
        query      |-> <<Tok("SELECT ... FROM analytics_logs", 0)>> \o where
                         \o limitClause
                         \o (IF withOffset
                             THEN <<Tok("OFFSET $", st.argIndex + 1)>> ELSE <<>>),
        args       |-> st.args \o <<IntArg(filter.Limit)>>
                         \o (IF withOffset
                             THEN <<IntArg(filter.Offset)>> ELSE <<>>)]

\* the value ORDER BY compares
SortKey(row, col) ==
    IF col \in {"id", "timestamp", "created_at"} THEN row[col]
    ELSE Collate(row[col])

\* the rows of the set that ORDER BY col dir may put first
First(rows, col, dir) ==
    {r \in rows : \A o \in rows :
        IF dir = "ASC" THEN SortKey(r, col) <= SortKey(o, col)
        ELSE SortKey(r, col) >= SortKey(o, col)}

RECURSIVE OrderBy(_, _, _)
\* the sequences ORDER BY col dir may make of the rows: rows with equal
\* values of col come in any order
OrderBy(rows, col, dir) ==
    IF rows = {} THEN {<<>>}
    ELSE UNION { {<<r>> \o rest : rest \in OrderBy(rows \ {r}, col, dir)} :
                    r \in First(rows, col, dir) }

\* the answers the store may give to SELECT ... WHERE ... ORDER BY col dir
Selections(conds, col, dir) ==
    OrderBy({logs[i] : i \in {k \in DOMAIN logs : Where(conds, logs[k])}},
            col, dir)

\* LIMIT limit, and OFFSET offset when offset > 0
LimitOffset(rows, limit, offset) ==
    LET skip == IF offset > 0 THEN offset ELSE 0
    IN SubSeq(rows, skip + 1, Min(skip + limit, Len(rows)))

\* SELECT COUNT(*) FROM analytics_logs WHERE ...
CountQuery(conds) == Cardinality({i \in DOMAIN logs : Where(conds, logs[i])})

\* the page query as sent to the store
PageSQL(filter) ==
    [where |-> Conditions(filter), orderBy |-> SortByOf(filter),
     dir |-> SortOrderOf(filter), limit |-> filter.Limit,
     hasOffset |-> filter.Offset > 0, offset |-> filter.Offset]

NoSQL == [where |-> <<>>, orderBy |-> "", dir |-> "", limit |-> 0,
          hasOffset |-> FALSE, offset |-> 0]

\* the response of the handler
NoFilterResp ==
    [status |-> 0, error |-> "", logs |-> <<>>, total_count |-> 0, page |-> 0,
     page_size |-> 0, total_pages |-> 0]

\* totalPages := int(totalCount) / pageSize, one more when there is a rest
TotalPages(totalCount, pageSize) ==
    (totalCount \div pageSize) + (IF totalCount % pageSize # 0 THEN 1 ELSE 0)

\* the handler with no request in hand
IdleFilter == [pc |-> "idle"]

\* the handler with the request q in hand, its parameters read
NewFilter(q) ==
    [pc |-> "query", q |-> q, filter |-> LogFilter(q), sql |-> NoSQL,
     queries |-> 0, storeErr |-> "", resp |-> NoFilterResp]

\* the pages a client has fetched one after the other with one query
NoScan == [active |-> FALSE]

\* ------------------------------------------ POST /ingest, /batch-ingest

\* models.JSONB: the nil map, the empty map, a map with entries (as its JSON
\* text)
NilJSONB == "nil"
EmptyJSONB == "{}"
SomeJSONB == "{k:v}"

\* JSONB.Value: NULL for the nil map, json.Marshal(j) otherwise
JSONBValue(j) == IF j = NilJSONB THEN SqlNull ELSE j

\* models.AnalyticsLog as ShouldBindJSON leaves it: a field the body does
\* not hold has the zero value of its type
AnalyticsLog(e, ts, ty, name, pri, props, dev) ==
    [EventID |-> e, Timestamp |-> ts, EventType |-> ty, EventName |-> name,
     Priority |-> pri, Properties |-> props, DeviceInfo |-> dev]

\* a log with every field given and valid
GoodLog(e) == AnalyticsLog(e, 1, "error", "n1", "high", SomeJSONB, SomeJSONB)

\* the bodies of POST /ingest
SingleBodies ==
    {AnalyticsLog(e, 1, ty, "n1", pri, props, dev) :
        e \in {"", "e1", "e2"}, ty \in {"error", "bogus"},
        pri \in {"", "high", "urgent"},
        props \in {NilJSONB, SomeJSONB}, dev \in {NilJSONB, SomeJSONB}}
    \cup {AnalyticsLog("e1", ZeroTime, "telemetry", "n1", "normal", EmptyJSONB,
                        NilJSONB),
          AnalyticsLog("e2", 1, "", "", "high", SomeJSONB, SomeJSONB),
          AnalyticsLog("", ZeroTime, "", "", "low", NilJSONB, NilJSONB)}

\* the logs of the small batches
BatchLogs ==
    {GoodLog("e1"),
     AnalyticsLog("e2", ZeroTime, "telemetry", "n1", "", NilJSONB, NilJSONB),
     AnalyticsLog("e1", 1, "error", "n1", "normal", SomeJSONB, SomeJSONB),
     AnalyticsLog("e3", 1, "bogus", "", "high", SomeJSONB, SomeJSONB)}

\* a batch of n valid logs with n event ids
BigBatch(n) == [i \in 1 .. n |-> GoodLog("b" \o ToString(i))]

\* the bodies of POST /batch-ingest: no log, one, two or three logs, 1000
\* and 1001 valid logs, 1001 logs of which the first is not valid
BatchBodies ==
    {<<>>}
    \cup {<<a>> : a \in BatchLogs}
    \cup {<<a, b>> : a \in BatchLogs, b \in BatchLogs}
    \cup {<<GoodLog("e1"), GoodLog("e2"), b>> : b \in BatchLogs}
    \cup {BigBatch(maxBatchSize), BigBatch(maxBatchSize + 1),
          [BigBatch(maxBatchSize + 1) EXCEPT
             ![1] = AnalyticsLog("", 1, "bogus", "", "low", NilJSONB, NilJSONB)]}

\* the logs of the requests that run beside the one followed
OtherLogs == {GoodLog("e1"), GoodLog("e2")}

\* setDefaultValues without the defaults of the two documents
setDefaultValues_NoMaps(log, at) ==
    [log EXCEPT
       !.Timestamp  = IF @ = ZeroTime THEN at ELSE @,
       !.Priority   = IF @ = "" THEN "normal" ELSE @]

\* setDefaultValues
setDefaultValues(log, at) ==
    [log EXCEPT
       !.Timestamp  = IF @ = ZeroTime THEN at ELSE @,
       !.Priority   = IF @ = "" THEN "normal" ELSE @,
       !.Properties = IF @ = NilJSONB THEN EmptyJSONB ELSE @,
       !.DeviceInfo = IF @ = NilJSONB THEN EmptyJSONB ELSE @]

\* the fields of AnalyticsLog with a validate tag, in the order of the struct
ValidatedFields == <<"EventID", "Timestamp", "EventType", "EventName", "Priority">>

\* the tag of the field that the log fails, "" when it passes:
\* required (EventID, Timestamp, EventType, EventName), oneof (EventType,
\* Priority)
FailedTag(log, field) ==
    CASE field = "EventID" -> IF log.EventID = "" THEN "required" ELSE ""
      [] field = "Timestamp" -> IF log.Timestamp = ZeroTime THEN "required" ELSE ""
      [] field = "EventType" ->
            IF log.EventType = "" THEN "required"
            ELSE IF log.EventType \notin
                      {"behavioral", "telemetry", "observability", "error",
                       "performance"}
            THEN "oneof" ELSE ""
      [] field = "EventName" -> IF log.EventName = "" THEN "required" ELSE ""
      [] field = "Priority" ->
            IF log.Priority \notin {"normal", "high"} THEN "oneof" ELSE ""

\* models.ValidationError
ValidationError(field, tag) == [Field |-> field, Tag |-> tag]

\* h.formatValidationErrors(h.validator.Struct(&log)): one error for each
\* field that fails, in the order of the struct
formatValidationErrors(log) ==
    SelectSeq([k \in DOMAIN ValidatedFields |->
                 ValidationError(ValidatedFields[k],
                                 FailedTag(log, ValidatedFields[k]))],
              LAMBDA ve : ve.Tag # "")

\* the errors of the logs of a batch, ve.Field = "logs[i].<field>", in the
\* order of the loop
BatchValidationErrors(batch) ==
    LET nf == Len(ValidatedFields)
        at(k) == [i |-> ((k - 1) \div nf) + 1, f |-> ((k - 1) % nf) + 1]
    IN SelectSeq(
         [k \in 1 .. Len(batch) * nf |->
            ValidationError(
               "logs[" \o ToString(at(k).i - 1) \o "]." \o ValidatedFields[at(k).f],
               FailedTag(batch[at(k).i], ValidatedFields[at(k).f]))],
         LAMBDA ve : ve.Tag # "")

\* the errors of the store, as their text
PqDuplicateKey ==
    "pq: duplicate key value violates unique constraint \"analytics_logs_event_id_key\""
PqConnection == "dial tcp: connect: connection refused"

\* fmt.Errorf("<msg>: %w", err)
Errorf(msg, err) == <<msg>> \o err

\* strings.Contains(err.Error(), "duplicate key") that never holds
ContainsDuplicateKey_Never(err) == FALSE

\* strings.Contains(err.Error(), "duplicate key")
ContainsDuplicateKey(err) == \E i \in DOMAIN err : err[i] = PqDuplicateKey

\* the row of analytics_logs the INSERT statement of InsertLog and
\* InsertLogsBatch writes
LogRow(log, id, at) ==
    [id |-> id, event_id |-> log.EventID, timestamp |-> log.Timestamp,
     event_type |-> log.EventType, event_name |-> log.EventName,
     properties |-> JSONBValue(log.Properties),
     user_id |-> SqlNull, session_id |-> SqlNull, app_version |-> SqlNull,
     device_info |-> JSONBValue(log.DeviceInfo),
     priority |-> log.Priority, provider |-> SqlNull, created_at |-> at]

\* event_id VARCHAR(255) UNIQUE NOT NULL: the statement fails when a row of
\* the table, or one written earlier in the transaction, has the event_id
Duplicate(rows, eventId) == \E i \in DOMAIN rows : rows[i].event_id = eventId

\* the handlers with no request in hand
IdleIngest == [pc |-> "idle"]

\* the responses of the ingest handlers
IngestResp(status, error, details) ==
    [status |-> status, error |-> error, details |-> details]

\* ---------------------------------------------------------------- Init

\* NewAuthService: empty cache, zero lastSync; the table holds what earlier
\* runs and the administrator left in it.
Init ==
    /\ now = 0
    /\ phase = "boot"
    /\ storeUp \in BOOLEAN
    /\ api_keys \in [Hashes -> InitRows]
    /\ apiKeys = <<>>
    /\ lastSync = ZeroTime
    /\ task = [t \in Tasks |-> IdleTask]
    /\ adm = [pc |-> "idle", hash |-> ""]
    /\ pending = 0
    /\ failing = 0
    /\ last = NoRequest
    /\ presented = {}
    /\ validated = {}
    /\ expiredSeen = {}
    /\ booted = FALSE
    /\ revoked = {}
    /\ tokens = RateLimitBurst
    /\ limLast = 0
    /\ sent = [c \in Clients |-> 0]
    /\ logs = <<>>
    /\ freq = IdleFilter
    /\ scan = NoScan
    /\ ireq = IdleIngest

\* ------------------------------------------------------------- actions

\* main: authService.InitializeAPIKeys(cfg.APIKeys), Fatalf on error
InitializeAPIKeys ==
    /\ UNCHANGED <<presented, revoked, limiter, filt>>
    /\ phase = "boot"
    /\ LET r == InitKeysFrom(1, api_keys, apiKeys, storeUp) IN
       /\ api_keys' = r.store
       /\ apiKeys' = r.cache
       /\ IF r.err
          THEN /\ phase' = "fatal"
               /\ UNCHANGED <<lastSync, validated, booted>>
          ELSE /\ phase' = "serving"
               /\ booted' = TRUE
               /\ lastSync' = now
               /\ validated' = ConfigHashes
    /\ last' = NoRequest
    /\ UNCHANGED <<now, storeUp, task, adm, pending, failing, expiredSeen>>

\* c.JSON(status, models.ErrorResponse{...}); c.Abort(); return
Reject(rec, st, err, msg, n) ==
    Done(rec, [status |-> st, error |-> err, message |-> msg], FALSE, n, FALSE)

\* c.Set("api_key_hash", keyHash); c.Next(): the middleware writes no
\* response, the protected handler runs
Accept(rec, n, viaCache) ==
    Done(rec, NoResp, TRUE, n, viaCache)

\* requests in the middleware and usage goroutines that have not ended
Outstanding ==
    Cardinality({t \in Tasks : task[t].pc # "idle"})
      + pending + failing

\* A request reaches AuthMiddleware: extractAPIKey, the empty-key check and
\* hashAPIKey (all local to the request).  Goroutines have no identity: the
\* request takes the first free task.  No client knows a key that
\* GenerateAPIKey has not returned yet.
AuthEnter(t, auth, xkey) ==
    /\ phase = "serving"
    /\ task[t].pc = "idle"
    /\ t = "t2" => task["t1"].pc # "idle"
    /\ Outstanding < MaxPending
    /\ presented' = presented \cup
                       ({extractAPIKey(auth, xkey)} \cap GenKeys)
    /\ adm.pc = "genCache" => extractAPIKey(auth, xkey) \notin GenKeys
    /\ UNCHANGED <<booted, revoked>>
    /\ LET apiKey == extractAPIKey(auth, xkey)
           fresh == [IdleTask EXCEPT !.auth = auth, !.xkey = xkey, !.key = apiKey]
       IN IF apiKey = ""
          THEN /\ last' = Reject(fresh, StatusUnauthorized, "unauthorized",
                                 "API key is required", 0)
               /\ UNCHANGED task
          ELSE /\ task' = [task EXCEPT ![t] =
                     [fresh EXCEPT !.pc = "sync",
                                   !.hash = hashAPIKey(apiKey),
                                   !.afterExpired = hashAPIKey(apiKey) \in expiredSeen]]
               /\ last' = NoRequest
    /\ UNCHANGED <<now, phase, storeUp, api_keys, apiKeys, lastSync, adm,
                   pending, failing, validated, expiredSeen>>

\* A request of the authentication layer taken alone: the limiter lets it
\* through and is left out.
Arrive(t, auth, xkey) ==
    /\ AuthEnter(t, auth, xkey)
    /\ UNCHANGED <<limiter, filt>>

\* rate.Limiter of rate.NewLimiter(rate.Limit(requestsPerMinute)/60, burst):
\* the tokens the bucket holds at the time of the call
LimiterTokens ==
    Min(RateLimitBurst, tokens + (now - limLast) * RateLimitRequestsPerMinute)

\* RateLimitMiddleware without its c.Abort(); return
RateLimitMiddleware_NoAbort(c, t, auth, xkey) ==
    /\ phase = "serving"
    /\ UNCHANGED filt
    /\ sent' = [sent EXCEPT ![c] = Min(RateLimitBurst, @ + 1)]
    /\ IF LimiterTokens >= 1
       THEN /\ tokens' = LimiterTokens - 1
            /\ limLast' = now
            /\ AuthEnter(t, auth, xkey)
       ELSE /\ UNCHANGED <<tokens, limLast>>
            /\ AuthEnter(t, auth, xkey)

\* RateLimitMiddleware, registered on the router before every route: one
\* limiter for the process; limiter.Allow() takes a token or the request ends
\* with 429, and c.Next() runs the rest of the chain, AuthMiddleware first.
RateLimitMiddleware(c, t, auth, xkey) ==
    /\ phase = "serving"
    /\ UNCHANGED filt
    /\ sent' = [sent EXCEPT ![c] = Min(RateLimitBurst, @ + 1)]
    /\ IF LimiterTokens >= 1
       THEN /\ tokens' = LimiterTokens - 1
            /\ limLast' = now
            /\ AuthEnter(t, auth, xkey)
       ELSE /\ last' = [NoRequest EXCEPT
                          !.client = c, !.auth = auth, !.xkey = xkey,
                          !.resp = [status  |-> StatusTooManyRequests,
                                    error   |-> "rate_limit_exceeded",
                                    message |-> "Too many requests. Please slow down."]]
            /\ UNCHANGED <<tokens, limLast>>
            /\ UNCHANGED <<now, phase, storeUp, api_keys, apiKeys, lastSync,
                           task, adm, pending, failing, presented, validated,
                           expiredSeen, booted, revoked>>

\* isValidCachedKey: time.Since(as.lastSync) > 5*time.Minute
CheckStale(t) ==
    /\ UNCHANGED <<presented, booted, revoked, limiter, filt>>
    /\ phase = "serving"
    /\ task[t].pc = "sync"
    /\ \E isStale \in SyncRead :
          task' = [task EXCEPT ![t].pc = IF isStale THEN "refresh" ELSE "cache",
                               ![t].stale = now - lastSync > FreshMinutes]
    /\ last' = NoRequest
    /\ UNCHANGED <<now, phase, storeUp, api_keys, apiKeys, lastSync, adm,
                   pending, failing, validated, expiredSeen>>

\* refreshCache that empties the cache before it is filled again
refreshCache_Clear(t) ==
    /\ UNCHANGED <<presented, booted, revoked, limiter, filt>>
    /\ phase = "serving"
    /\ task[t].pc = "refresh"
    /\ lastSync' = now
    /\ apiKeys' = <<>>
    /\ validated' = {}
    /\ task' = [task EXCEPT ![t].pc = "cache"]
    /\ last' = NoRequest
    /\ UNCHANGED <<now, phase, storeUp, api_keys, adm, pending,
                   failing, expiredSeen>>

\* refreshCache: as.lastSync = time.Now()
refreshCache(t) ==
    /\ UNCHANGED <<presented, booted, revoked, limiter, filt>>
    /\ phase = "serving"
    /\ task[t].pc = "refresh"
    /\ lastSync' = now
    /\ task' = [task EXCEPT ![t].pc = "cache"]
    /\ last' = NoRequest
    /\ UNCHANGED <<now, phase, storeUp, api_keys, apiKeys, adm, pending,
                   failing, validated, expiredSeen>>

\* return as.apiKeys[keyHash], and the cache-hit branch of AuthMiddleware:
\* go func() { as.db.UpdateAPIKeyUsage(keyHash) }(); c.Next()
CheckCache(t) ==
    /\ UNCHANGED <<presented, booted, revoked, limiter, filt>>
    /\ phase = "serving"
    /\ task[t].pc = "cache"
    /\ \E found \in MapRead(task[t].hash) :
          IF found
          THEN /\ pending' = pending + 1
               /\ last' = Accept(task[t], 0, TRUE)
               /\ task' = [task EXCEPT ![t] = IdleTask]
          ELSE /\ task' = [task EXCEPT ![t].pc = "lookup", ![t].stale = FALSE,
                                       ![t].afterExpired = FALSE]
               /\ last' = NoRequest
               /\ UNCHANGED pending
    /\ UNCHANGED <<now, phase, storeUp, api_keys, apiKeys, lastSync, adm,
                   failing, validated, expiredSeen>>

\* as.db.GetAPIKey(keyHash) and the checks on its result
Lookup(t) ==
    /\ UNCHANGED <<presented, booted, revoked, limiter, filt>>
    /\ phase = "serving"
    /\ task[t].pc = "lookup"
    /\ LET h == task[t].hash
           got == GetAPIKey(storeUp, api_keys, h)
           dbKey == got.row
           me == task[t]
       IN
       IF got.err
       THEN /\ last' = Reject(me, StatusInternalServerError, "internal_error",
                              "Failed to validate API key", 1)
            /\ task' = [task EXCEPT ![t] = IdleTask]
            /\ UNCHANGED expiredSeen
       ELSE IF dbKey = NoRow \/ ~dbKey.is_active
       THEN /\ last' = Reject(me, StatusUnauthorized, "unauthorized",
                              "Invalid or inactive API key", 1)
            /\ task' = [task EXCEPT ![t] = IdleTask]
            /\ UNCHANGED expiredSeen
       ELSE IF IsExpired(dbKey, now)
       THEN /\ last' = Reject(me, StatusUnauthorized, "unauthorized",
                              "API key has expired", 1)
            /\ task' = [task EXCEPT ![t] = IdleTask]
            /\ expiredSeen' = expiredSeen \cup {h}
       ELSE /\ task' = [u \in Tasks |->
                   IF u = t THEN [me EXCEPT !.pc = "insert"]
                   ELSE IF task[u].hash = h
                        THEN [task[u] EXCEPT !.afterExpired = FALSE]
                        ELSE task[u]]
            /\ expiredSeen' = expiredSeen \ {h}
            /\ last' = NoRequest
    /\ UNCHANGED <<now, phase, storeUp, api_keys, apiKeys, lastSync, adm,
                   pending, failing, validated>>

\* as.apiKeys[keyHash] = true; go func() { ... }(); c.Next()
InsertCache(t) ==
    /\ UNCHANGED <<presented, booted, revoked, limiter, filt>>
    /\ phase = "serving"
    /\ task[t].pc = "insert"
    /\ apiKeys' \in MapWrite(t, MapSet(apiKeys, task[t].hash, TRUE))
    /\ pending' = pending + 1
    /\ last' = Accept(task[t], 1, FALSE)
    /\ task' = [task EXCEPT ![t] = IdleTask]
    /\ validated' = validated \cup {task[t].hash}
    /\ UNCHANGED <<now, phase, storeUp, api_keys, lastSync, adm, failing,
                   expiredSeen>>

\* A usage goroutine runs db.UpdateAPIKeyUsage(keyHash): UPDATE api_keys SET
\* last_used_at = NOW(), usage_count = usage_count + 1 WHERE key_hash = $1
\* (columns the row of this model leaves out).  With err == nil the goroutine
\* ends.
UpdateAPIKeyUsage ==
    /\ UNCHANGED <<presented, booted, revoked, limiter, filt>>
    /\ phase = "serving"
    /\ pending > 0
    /\ pending' = pending - 1
    /\ failing' = IF storeUp THEN failing ELSE failing + 1
    /\ last' = NoRequest
    /\ UNCHANGED <<now, phase, storeUp, api_keys, apiKeys, lastSync, task,
                   adm, validated, expiredSeen>>

\* the failed usage update started again instead of only logged
LogUsageError_Retry ==
    /\ UNCHANGED <<presented, booted, revoked, limiter, filt>>
    /\ phase = "serving"
    /\ failing > 0
    /\ failing' = failing - 1
    /\ pending' = pending + 1
    /\ last' = NoRequest
    /\ UNCHANGED <<now, phase, storeUp, api_keys, apiKeys, lastSync, task, adm,
                   validated, expiredSeen>>

\* logrus.Errorf("Failed to update API key usage: %v", err); the goroutine ends
LogUsageError ==
    /\ UNCHANGED <<presented, booted, revoked, limiter, filt>>
    /\ phase = "serving"
    /\ failing > 0
    /\ failing' = failing - 1
    /\ last' = NoRequest
    /\ UNCHANGED <<now, phase, storeUp, api_keys, apiKeys, lastSync, task,
                   adm, pending, validated, expiredSeen>>

\* GenerateAPIKey up to its InsertAPIKey call; on an error it returns.  The
\* key is new and random: no request has presented it before.
GenerateAPIKey(key, expiresAt) ==
    /\ UNCHANGED <<presented, booted, revoked, limiter, filt>>
    /\ phase = "serving"
    /\ adm.pc = "idle"
    /\ key \notin presented
    /\ LET keyHash == hashAPIKey(key)
           ins == InsertAPIKey(storeUp, api_keys, keyHash, TRUE, expiresAt)
       IN /\ ins.ok
          /\ api_keys' = ins.store
          /\ adm' = [pc |-> "genCache", hash |-> keyHash]
    /\ last' = NoRequest
    /\ UNCHANGED <<now, phase, storeUp, apiKeys, lastSync, task, pending,
                   failing, validated, expiredSeen>>

\* GenerateAPIKey: as.apiKeys[keyHash] = true
GenerateCache ==
    /\ UNCHANGED <<presented, booted, revoked, limiter, filt>>
    /\ phase = "serving"
    /\ adm.pc = "genCache"
    /\ apiKeys' \in MapWrite("adm", MapSet(apiKeys, adm.hash, TRUE))
    /\ adm' = [pc |-> "idle", hash |-> ""]
    /\ last' = NoRequest
    /\ UNCHANGED <<now, phase, storeUp, api_keys, lastSync, task, pending,
                   failing, validated, expiredSeen>>

\* RevokeAPIKey: delete(as.apiKeys, keyHash); return nil.  The delete is an
\* unsynchronised map write: while another goroutine is at a map access the
\* runtime may end the process instead.
RevokeAPIKey(keyHash) ==
    /\ UNCHANGED <<presented, booted, limiter, filt>>
    /\ phase = "serving"
    /\ adm.pc = "idle"
    /\ \/ /\ apiKeys' \in MapWrite("adm", MapDelete(apiKeys, keyHash))
          /\ validated' = validated \ {keyHash}
          /\ UNCHANGED phase
       \/ /\ CacheReaders \cup CacheWriters # {}
          /\ phase' = "crashed"
          /\ UNCHANGED <<apiKeys, validated>>
    /\ last' = NoRequest
    /\ UNCHANGED <<now, storeUp, api_keys, lastSync, task, adm, pending,
                   failing, expiredSeen>>

\* The Go runtime detects an unsynchronised map access and ends the process
\* ("fatal error: concurrent map writes" / "concurrent map read and map write").
RuntimeFatal ==
    /\ UNCHANGED <<presented, booted, revoked, limiter, filt>>
    /\ phase = "serving"
    /\ MapRace
    /\ phase' = "crashed"
    /\ last' = NoRequest
    /\ UNCHANGED <<now, storeUp, api_keys, apiKeys, lastSync, task, adm,
                   pending, failing, validated, expiredSeen>>

\* ------------------------------------------------------------ environment

Tick ==
    /\ UNCHANGED <<presented, booted, revoked, limiter, filt>>
    /\ now < MaxTicks * TickMinutes
    /\ phase \in {"boot", "serving"}
    /\ now' = now + TickMinutes
    /\ last' = NoRequest
    /\ UNCHANGED <<phase, storeUp, api_keys, apiKeys, lastSync, task, adm,
                   pending, failing, validated, expiredSeen>>

StoreFail ==
    /\ UNCHANGED <<presented, booted, revoked, limiter, filt>>
    /\ phase = "serving"
    /\ storeUp
    /\ storeUp' = FALSE
    /\ last' = NoRequest
    /\ UNCHANGED <<now, phase, api_keys, apiKeys, lastSync, task, adm,
                   pending, failing, validated, expiredSeen>>

StoreRecover ==
    /\ UNCHANGED <<presented, booted, revoked, limiter, filt>>
    /\ phase = "serving"
    /\ ~storeUp
    /\ storeUp' = TRUE
    /\ last' = NoRequest
    /\ UNCHANGED <<now, phase, api_keys, apiKeys, lastSync, task, adm,
                   pending, failing, validated, expiredSeen>>

\* The process ends and is started again with the same configuration: main
\* builds a new AuthService (empty cache) over the same table.
Restart ==
    /\ phase \in {"serving", "fatal", "crashed"}
    /\ phase' = "boot"
    /\ apiKeys' = <<>>
    /\ lastSync' = ZeroTime
    /\ task' = [t \in Tasks |-> IdleTask]
    /\ adm' = [pc |-> "idle", hash |-> ""]
    /\ pending' = 0
    /\ failing' = 0
    /\ last' = NoRequest
    /\ validated' = {}
    /\ revoked' = {}
    /\ tokens' = RateLimitBurst
    /\ limLast' = now
    /\ sent' = [c \in Clients |-> 0]
    /\ freq' = IdleFilter
    /\ scan' = NoScan
    /\ ireq' = IdleIngest
    /\ UNCHANGED logs
    /\ UNCHANGED <<now, storeUp, api_keys, presented, expiredSeen, booted>>

\* Revocation by the administrator of the table: is_active of a record is
\* set to false (no statement of the program writes the column).
Deactivate(h) ==
    /\ phase \in {"boot", "serving"}
    /\ api_keys[h] # NoRow
    /\ api_keys[h].is_active
    /\ api_keys' = [api_keys EXCEPT ![h].is_active = FALSE]
    /\ last' = NoRequest
    /\ UNCHANGED <<now, phase, storeUp, apiKeys, lastSync, task, adm, pending,
                   failing, presented, validated, expiredSeen, booted, revoked,
                   limiter, filt>>

\* ------------------------------------------------- log handlers

\* InsertLog: the store gives the next id and created_at = NOW()
InsertLog(l) ==
    /\ phase = "serving"
    /\ storeUp
    /\ Len(logs) < MaxRows
    /\ UNCHANGED <<authVars, limiter, scan, ireq>>
    /\ logs' = Append(logs,
          [id |-> Len(logs) + 1, event_id |-> EventIds[Len(logs) + 1],
           timestamp |-> l.timestamp, event_type |-> l.event_type,
           event_name |-> l.event_name, user_id |-> l.user_id,
           session_id |-> l.session_id, app_version |-> l.app_version,
           priority |-> l.priority, provider |-> l.provider,
           created_at |-> now])
    /\ UNCHANGED freq

\* IngestHandler.GetFilteredLogs up to the call of the store: the query
\* parameters are read and checked; a parameter that fails ends the request
\* with 400.
FilterRequest(q) ==
    /\ UNCHANGED <<authVars, limiter, scan, ireq>>
    /\ phase = "serving"
    /\ freq.pc = "idle"
    /\ freq' = IF QueryError(q) # ""
               THEN [NewFilter(q) EXCEPT
                       !.pc = "done",
                       !.resp = [NoFilterResp EXCEPT !.status = StatusBadRequest,
                                                     !.error = QueryError(q)]]
               ELSE NewFilter(q)
    /\ UNCHANGED logs

\* for rows.Next() { rows.Scan(...); logs = append(logs, log) }; return logs,
\* totalCount, nil: the store delivers n rows of the page; rows.Next() is
\* false at the end of the page and when the store fails, and the loop is
\* followed by no check of rows.Err()
ReadRows(page, n) ==
    [err |-> FALSE, logs |-> SubSeq(page, 1, Min(n, Len(page)))]

\* db.GetFilteredLogs(filter) and the rest of the handler: the count query,
\* the page query, total_pages and the 200 response; 500 when the store fails
GetFilteredLogs ==
    /\ UNCHANGED <<authVars, limiter, scan, ireq>>
    /\ freq.pc = "query"
    /\ IF ~storeUp
       THEN freq' = [freq EXCEPT
                       !.pc = "done", !.queries = 1, !.storeErr = "count",
                       !.resp = [NoFilterResp EXCEPT
                                   !.status = StatusInternalServerError,
                                   !.error = "database_error"]]
       ELSE LET sql == PageSQL(freq.filter)
                totalCount == CountQuery(sql.where)
            IN \E sel \in Selections(sql.where, sql.orderBy, sql.dir) :
                 freq' = [freq EXCEPT
                   !.pc = "done", !.sql = sql, !.queries = 2,
                   !.resp = [status |-> StatusOK, error |-> "",
                             logs |-> ReadRows(
                                 LimitOffset(sel, sql.limit, sql.offset),
                                 Len(LimitOffset(sel, sql.limit, sql.offset))).logs,
                             total_count |-> totalCount,
                             page |-> PageOf(freq.q),
                             page_size |-> PageSizeOf(freq.q),
                             total_pages |-> TotalPages(totalCount, PageSizeOf(freq.q))]]
    /\ UNCHANGED logs

\* db.GetFilteredLogs(filter) and the rest of the handler in a call during
\* which the store fails: before the count query has answered, after it and
\* before the page query has answered, or after n rows of the page were read
GetFilteredLogsStoreFails ==
    /\ UNCHANGED <<limiter, scan, logs, ireq>>
    /\ phase = "serving"
    /\ freq.pc = "query"
    /\ storeUp
    /\ storeUp' = FALSE
    /\ LET sql == PageSQL(freq.filter)
           totalCount == CountQuery(sql.where)
           failed(at, n) ==
               [freq EXCEPT
                  !.pc = "done", !.queries = n, !.storeErr = at,
                  !.resp = [NoFilterResp EXCEPT
                              !.status = StatusInternalServerError,
                              !.error = "database_error"]]
       IN \/ freq' = failed("count", 1)
          \/ freq' = [failed("page", 2) EXCEPT !.sql = sql]
          \/ \E sel \in Selections(sql.where, sql.orderBy, sql.dir) :
               LET page == LimitOffset(sel, sql.limit, sql.offset) IN
               \E n \in 0 .. Len(page) - 1 :
                 LET read == ReadRows(page, n) IN
                 freq' = IF read.err
                         THEN [failed("rows", 2) EXCEPT !.sql = sql]
                         ELSE [freq EXCEPT
                           !.pc = "done", !.sql = sql, !.queries = 2,
                           !.storeErr = "rows",
                           !.resp = [status |-> StatusOK, error |-> "",
                                     logs |-> read.logs,
                                     total_count |-> totalCount,
                                     page |-> PageOf(freq.q),
                                     page_size |-> PageSizeOf(freq.q),
                                     total_pages |->
                                        TotalPages(totalCount, PageSizeOf(freq.q))]]
    /\ UNCHANGED <<now, phase, api_keys, apiKeys, lastSync, task, adm,
                   pending, failing, last, presented, validated, expiredSeen,
                   booted, revoked>>

\* the handler returns and the client has the response; a client that
\* fetches page after page keeps the ids of the rows of this page
FilterReturn ==
    /\ UNCHANGED <<authVars, limiter, ireq>>
    /\ freq.pc = "done"
    /\ freq' = IdleFilter
    /\ scan' = IF scan.active
               THEN [scan EXCEPT
                       !.next = @ + 1,
                       !.got = @ \o [i \in DOMAIN freq.resp.logs |->
                                       freq.resp.logs[i].id],
                       !.complete = \/ freq.resp.status # StatusOK
                                    \/ scan.next >= freq.resp.total_pages]
               ELSE scan
    /\ UNCHANGED logs

\* the queries a client pages through: every sort column, small pages
ScanQueries ==
    {[BaseQuery EXCEPT !.sort_by = c, !.page_size = s] :
        c \in ValidSortFields \cup {""}, s \in {<<"1">>, <<"2">>}}

\* a client starts to fetch every page of a query
ScanStart(q) ==
    /\ phase = "serving"
    /\ ~scan.active
    /\ freq.pc = "idle"
    /\ scan' = [active |-> TRUE, q |-> q, next |-> 1, got |-> <<>>,
                complete |-> FALSE]
    /\ UNCHANGED <<authVars, limiter, logs, freq, ireq>>

\* the client asks for the next page
ScanRequest ==
    /\ scan.active
    /\ ~scan.complete
    /\ FilterRequest([scan.q EXCEPT !.page = Itoa(scan.next)])

\* the client has every page
ScanEnd ==
    /\ scan.active
    /\ scan.complete
    /\ scan' = NoScan
    /\ UNCHANGED <<authVars, limiter, logs, freq, ireq>>

\* ------------------------------------------------------------------ Spec

\* the steps of the request goroutine t
Middleware(t) ==
    \/ CheckStale(t)
    \/ refreshCache(t)
    \/ CheckCache(t)
    \/ Lookup(t)
    \/ InsertCache(t)

\* ------------------------------------------------- ingest handlers

\* the handler with a request in hand
NewIngest(kind, body) ==
    [pc |-> "done", kind |-> kind, body |-> body, valid |-> <<>>, tx |-> <<>>,
     resp |-> IngestResp(0, "", <<>>)]

\* IngestSingle up to the call of the store: the body is bound, the defaults
\* are set, the log is validated; 400 'validation_error' with the errors of
\* the fields when the validation fails
IngestSingle(body) ==
    /\ UNCHANGED <<authVars, limiter, logs, freq, scan>>
    /\ phase = "serving"
    /\ ireq.pc = "idle"
    /\ Len(logs) < MaxRows
    /\ LET log == setDefaultValues(body, now)
           validationErrors == formatValidationErrors(log)
       IN ireq' = IF validationErrors # <<>>
                  THEN [NewIngest("single", <<body>>) EXCEPT
                          !.resp = IngestResp(StatusBadRequest, "validation_error",
                                              validationErrors)]
                  ELSE [NewIngest("single", <<body>>) EXCEPT
                          !.pc = "insert", !.valid = <<log>>]

\* IngestSingle from h.db.InsertLog(&log) on: the INSERT statement and the
\* response, 409 'duplicate_event' when the error of the store holds
\* "duplicate key", 500 'database_error' for another error, 201 otherwise
IngestSingleInsert ==
    /\ UNCHANGED <<authVars, limiter, freq, scan>>
    /\ ireq.pc = "insert"
    /\ ireq.kind = "single"
    /\ LET log == ireq.valid[1]
           err == IF ~storeUp THEN Errorf("failed to insert log", <<PqConnection>>)
                  ELSE IF Duplicate(logs, log.EventID)
                  THEN Errorf("failed to insert log", <<PqDuplicateKey>>)
                  ELSE <<>>
       IN IF err # <<>>
          THEN /\ ireq' = [ireq EXCEPT
                            !.pc = "done",
                            !.resp = IF ContainsDuplicateKey(err)
                                     THEN IngestResp(StatusConflict,
                                                     "duplicate_event", <<>>)
                                     ELSE IngestResp(StatusInternalServerError,
                                                     "database_error", <<>>)]
               /\ UNCHANGED logs
          ELSE /\ logs' = Append(logs, LogRow(log, Len(logs) + 1, now))
               /\ ireq' = [ireq EXCEPT
                            !.pc = "done",
                            !.resp = IngestResp(StatusCreated, "", <<>>)]

\* the size checks with a limit that refuses maxBatchSize logs
BatchSizeError_Inclusive(n) ==
    IF n = 0 THEN "empty_batch"
    ELSE IF n >= maxBatchSize THEN "batch_too_large"
    ELSE ""

\* if len(batchRequest.Logs) == 0 ... 'empty_batch';
\* if len(batchRequest.Logs) > maxBatchSize ... 'batch_too_large'
BatchSizeError(n) ==
    IF n = 0 THEN "empty_batch"
    ELSE IF n > maxBatchSize THEN "batch_too_large"
    ELSE ""

\* IngestBatch up to the call of the store: the size checks, then the
\* defaults and the validation of every log; 400 with the errors of all the
\* logs when one fails
IngestBatch(body) ==
    /\ UNCHANGED <<authVars, limiter, logs, freq, scan>>
    /\ phase = "serving"
    /\ ireq.pc = "idle"
    /\ Len(logs) < MaxRows
    /\ Len(body) >= maxBatchSize => logs = <<>>
    /\ IF BatchSizeError(Len(body)) # ""
       THEN ireq' = [NewIngest("batch", body) EXCEPT
                       !.resp = IngestResp(StatusBadRequest,
                                           BatchSizeError(Len(body)), <<>>)]
       ELSE LET defaulted == [i \in DOMAIN body |-> setDefaultValues(body[i], now)]
                validationErrors == BatchValidationErrors(defaulted)
                validLogs == SelectSeq(defaulted,
                                LAMBDA l : formatValidationErrors(l) = <<>>)
            IN ireq' = IF Len(validationErrors) > 0
                       THEN [NewIngest("batch", body) EXCEPT
                               !.resp = IngestResp(StatusBadRequest,
                                                   "validation_error",
                                                   validationErrors)]
                       ELSE [NewIngest("batch", body) EXCEPT
                               !.pc = "insert", !.valid = validLogs]

\* InsertLogsBatch with each statement run on db.conn, outside a transaction
InsertLogsBatch_NoTx ==
    /\ UNCHANGED <<authVars, limiter, freq, scan>>
    /\ ireq.pc = "insert"
    /\ ireq.kind = "batch"
    /\ LET validLogs == ireq.valid
           fails == {k \in DOMAIN validLogs :
                       \/ Duplicate(logs, validLogs[k].EventID)
                       \/ \E j \in 1 .. k - 1 :
                             validLogs[j].EventID = validLogs[k].EventID}
           done == IF fails = {} THEN Len(validLogs)
                   ELSE (CHOOSE k \in fails : \A j \in fails : k <= j) - 1
           rows == [k \in 1 .. done |->
                      LogRow(validLogs[k], Len(logs) + k, now)]
       IN IF ~storeUp \/ fails # {}
          THEN /\ ireq' = [ireq EXCEPT
                            !.pc = "done",
                            !.resp = IngestResp(StatusInternalServerError,
                                                "database_error", <<>>)]
               /\ logs' = IF storeUp THEN logs \o rows ELSE logs
          ELSE /\ ireq' = [ireq EXCEPT !.pc = "commit"]
               /\ logs' = logs \o rows

\* InsertLogsBatch up to tx.Commit(): Begin, Prepare and one stmt.Exec for
\* each log, in order.  The rows are written in the transaction; the first
\* log whose event_id a row of the table or an earlier log of the batch has
\* makes its Exec fail, the function returns and the deferred tx.Rollback()
\* drops what was written.
InsertLogsBatch ==
    /\ UNCHANGED <<authVars, limiter, freq, scan>>
    /\ ireq.pc = "insert"
    /\ ireq.kind = "batch"
    /\ LET validLogs == ireq.valid
           fails == {k \in DOMAIN validLogs :
                       \/ Duplicate(logs, validLogs[k].EventID)
                       \/ \E j \in 1 .. k - 1 :
                             validLogs[j].EventID = validLogs[k].EventID}
           rows == [k \in DOMAIN validLogs |->
                      LogRow(validLogs[k], Len(logs) + k, now)]
       IN IF ~storeUp \/ fails # {}
          THEN /\ ireq' = [ireq EXCEPT
                            !.pc = "done",
                            !.resp = IngestResp(StatusInternalServerError,
                                                "database_error", <<>>)]
               /\ UNCHANGED logs
          ELSE /\ ireq' = [ireq EXCEPT !.pc = "commit", !.tx = rows]
               /\ UNCHANGED logs

\* tx.Commit() and the rest of IngestBatch: the rows of the transaction are
\* in the table, 201; a commit that fails leaves the table as it was, 500
Commit ==
    /\ UNCHANGED <<authVars, limiter, freq, scan>>
    /\ ireq.pc = "commit"
    /\ IF ~storeUp
       THEN /\ ireq' = [ireq EXCEPT
                         !.pc = "done", !.tx = <<>>,
                         !.resp = IngestResp(StatusInternalServerError,
                                             "database_error", <<>>)]
            /\ UNCHANGED logs
       ELSE /\ logs' = logs \o [k \in DOMAIN ireq.tx |->
                                  [ireq.tx[k] EXCEPT !.id = Len(logs) + k]]
            /\ ireq' = [ireq EXCEPT
                         !.pc = "done", !.tx = <<>>,
                         !.resp = IngestResp(StatusCreated, "", <<>>)]

\* the handler returns
IngestReturn ==
    /\ UNCHANGED <<authVars, limiter, logs, freq, scan>>
    /\ ireq.pc = "done"
    /\ ireq' = IdleIngest

\* h.db.InsertLog(&log) of another request, which succeeds; the statement
\* waits while an open transaction has written the event_id
ConcurrentInsertLog(log) ==
    /\ UNCHANGED <<authVars, limiter, freq, scan, ireq>>
    /\ phase = "serving"
    /\ storeUp
    /\ Len(logs) < MaxRows
    /\ ~Duplicate(logs, log.EventID)
    /\ ireq.pc = "commit" => ~Duplicate(ireq.tx, log.EventID)
    /\ logs' = Append(logs, LogRow(log, Len(logs) + 1, now))

\* the process as main runs it, apart from the requests
Server ==
    \/ InitializeAPIKeys
    \/ UpdateAPIKeyUsage
    \/ LogUsageError
    \/ RuntimeFatal
    \/ Tick
    \/ StoreFail
    \/ StoreRecover

\* calls of the exported methods GenerateAPIKey and RevokeAPIKey
Admin ==
    \/ \E key \in GenKeys, e \in ExpiryTimes : GenerateAPIKey(key, e)
    \/ GenerateCache
    \/ \E h \in Hashes : RevokeAPIKey(h) /\ UNCHANGED revoked

\* concurrent requests, each presenting a Bearer token
Requests ==
    \/ \E t \in Tasks, auth \in BearerHeaders : Arrive(t, auth, "")
    \/ \E t \in Tasks : Middleware(t)

\* The server with callers of the administrative methods.
Next ==
    \/ Requests
    \/ Server
    \/ Admin

Spec == Init /\ [][Next]_vars

\* The server as main wires it: no caller of GenerateAPIKey or RevokeAPIKey.
NextServe ==
    \/ Requests
    \/ Server

SpecServe == Init /\ [][NextServe]_vars

\* One request at a time, with every combination of the two headers, and no
\* administrative operation.
NextHeaders ==
    \/ \E auth \in AuthHeaders, xkey \in XKeyHeaders : Arrive("t1", auth, xkey)
    \/ Middleware("t1")
    \/ InitializeAPIKeys
    \/ UpdateAPIKeyUsage
    \/ LogUsageError
    \/ Tick
    \/ StoreFail
    \/ StoreRecover

SpecHeaders == Init /\ [][NextHeaders]_vars

\* The process started again and again over a table the administrator
\* also writes; no request.
NextBoot ==
    \/ InitializeAPIKeys
    \/ Restart
    \/ \E h \in Hashes : Deactivate(h)
    \/ Tick
    \/ StoreFail
    \/ StoreRecover

SpecBoot == Init /\ [][NextBoot]_vars

\* One request at a time and the administrative methods; the calls of
\* RevokeAPIKey that return while no request is in flight are remembered, and
\* a key is generated once (generateRandomString gives a fresh key).
NextRevoke ==
    \/ \E auth \in BearerHeaders : Arrive("t1", auth, "")
    \/ Middleware("t1")
    \/ InitializeAPIKeys
    \/ UpdateAPIKeyUsage
    \/ Tick
    \/ \E key \in GenKeys, e \in ExpiryTimes :
          hashAPIKey(key) \notin revoked /\ GenerateAPIKey(key, e)
    \/ GenerateCache
    \/ \E h \in Hashes :
          /\ RevokeAPIKey(h)
          /\ revoked' = IF phase' = "serving" /\ task["t1"].pc = "idle"
                        THEN revoked \cup {h} ELSE revoked

SpecRevoke == Init /\ [][NextRevoke]_vars

\* The requests of two clients through the whole chain of main: the limiter,
\* then AuthMiddleware; one request at a time, the store as it was at the
\* start, no administrative operation.
NextRate ==
    \/ \E c \in Clients, auth \in {NoAuth} \cup BearerHeaders :
          RateLimitMiddleware(c, "t1", auth, "")
    \/ Middleware("t1")
    \/ InitializeAPIKeys
    \/ UpdateAPIKeyUsage
    \/ Tick

SpecRate == Init /\ [][NextRate]_vars

\* The log table and one client of GET /logs/filter at a time.
InitFilter ==
    /\ Init
    /\ storeUp
    /\ api_keys = [h \in Hashes |-> NoRow]

NextFilter ==
    \/ InitializeAPIKeys
    \/ Tick
    \/ freq.pc = "idle" /\ \E l \in LogInputs : InsertLog(l)
    \/ \E q \in FilterQueries : FilterRequest(q)
    \/ GetFilteredLogs
    \/ FilterReturn

SpecFilter == InitFilter /\ [][NextFilter]_vars

\* The same with the requests that choose order and page.
NextOrder ==
    \/ InitializeAPIKeys
    \/ Tick
    \/ freq.pc = "idle" /\ \E l \in LogInputs : InsertLog(l)
    \/ \E q \in OrderQueries : FilterRequest(q)
    \/ GetFilteredLogs
    \/ FilterReturn

SpecOrder == InitFilter /\ [][NextOrder]_vars

\* Requests that differ in the values of their filters, in the sort
\* parameters and in the page
TextQueries ==
    {[BaseQuery EXCEPT !.event_type = ty, !.user_id = u, !.start_time = st,
                       !.sort_by = c, !.sort_order = o, !.page = p,
                       !.page_size = <<"1">>] :
        ty \in {"", "error", "telemetry"},
        u \in {"", "u1"},
        st \in {NoTimeParam, TimeParam("RFC3339", 0), TimeParam("RFC3339", 1)},
        c \in {"", "id", "id; DROP TABLE analytics_logs"},
        o \in {"", "asc"},
        p \in {<<>>, <<"2">>}}

NextText ==
    \/ InitializeAPIKeys
    \/ freq.pc = "idle" /\ \E l \in LogInputs : InsertLog(l)
    \/ \E q \in TextQueries : FilterRequest(q)
    \/ GetFilteredLogs
    \/ FilterReturn

SpecText == InitFilter /\ [][NextText]_vars

\* The two ingest routes, one request followed step by step beside the
\* inserts of other requests, over a store that fails and recovers.
NextIngest ==
    \/ InitializeAPIKeys
    \/ \E body \in SingleBodies : IngestSingle(body)
    \/ IngestSingleInsert
    \/ \E body \in BatchBodies : IngestBatch(body)
    \/ InsertLogsBatch
    \/ Commit
    \/ IngestReturn
    \/ \E log \in OtherLogs : ConcurrentInsertLog(log)
    \/ StoreFail
    \/ StoreRecover

SpecIngest == InitFilter /\ [][NextIngest]_vars

\* The three routes that validate their input, one request at a time, with
\* batches of up to three logs.
NextValid ==
    \/ InitializeAPIKeys
    \/ \E body \in SingleBodies : freq.pc = "idle" /\ IngestSingle(body)
    \/ IngestSingleInsert
    \/ \E body \in BatchBodies :
          freq.pc = "idle" /\ Len(body) < maxBatchSize /\ IngestBatch(body)
    \/ InsertLogsBatch
    \/ Commit
    \/ IngestReturn
    \/ \E q \in InvalidQueries : ireq.pc = "idle" /\ FilterRequest(q)
    \/ GetFilteredLogs
    \/ FilterReturn

SpecValid == InitFilter /\ [][NextValid]_vars

\* Queries over a store that fails and recovers, also in the middle of a call
FailQueries ==
    {[BaseQuery EXCEPT !.event_type = ty, !.page = p, !.page_size = s,
                       !.sort_by = "id"] :
        ty \in {"", "error"}, p \in {<<>>, <<"2">>},
        s \in {<<"1">>, <<"2">>, <<>>}}

NextFail ==
    \/ InitializeAPIKeys
    \/ freq.pc = "idle" /\ \E l \in LogInputs : InsertLog(l)
    \/ \E q \in FailQueries : FilterRequest(q)
    \/ GetFilteredLogs
    \/ GetFilteredLogsStoreFails
    \/ FilterReturn
    \/ StoreFail
    \/ StoreRecover

SpecFail == InitFilter /\ [][NextFail]_vars

\* A client that fetches a query page by page while the table does not
\* change.
NextScan ==
    \/ InitializeAPIKeys
    \/ Tick
    \/ ~scan.active /\ \E l \in LogInputs : InsertLog(l)
    \/ \E q \in ScanQueries : ScanStart(q)
    \/ ScanRequest
    \/ GetFilteredLogs
    \/ FilterReturn
    \/ ScanEnd

SpecScan == InitFilter /\ [][NextScan]_vars

\* ---------------------------------------------------------------- claims

\* the request goroutine t takes the step of the statement named pc
Leaves(t, pc) == task[t].pc = pc /\ task'[t].pc # pc

\* the request went through to the protected handler
Accepted(r) == r.next /\ r.resp = NoResp

\* C1: every access of the shared cache (apiKeys, lastSync) is mutually
\* exclusive: no two goroutines are at an access of the same field at the
\* same time when at least one of them writes.
C1_MutualExclusion == ~MapRace /\ ~SyncRace

\* C2: whenever a hash is added to the cache, the store record of that hash
\* is, at that moment, active and not expired.
C2_OnlyValidCached ==
    [][\A h \in Hashes :
         (~MapGet(apiKeys, h) /\ MapGet(apiKeys', h))
            => (api_keys'[h] # NoRow /\ api_keys'[h].is_active
                /\ (api_keys'[h].expires_at = NoExpiry
                    \/ api_keys'[h].expires_at >= now'))]_vars

\* C3: a request that arrives after its key was rejected as expired, with no
\* store lookup in between that found the key active and not expired, is not
\* accepted by the cache check: it goes on to the store lookup.
C3_NoHitAfterExpired ==
    [][\A t \in Tasks :
         (Leaves(t, "cache") /\ task[t].afterExpired)
            => (task'[t].pc = "lookup" /\ last' = NoRequest)]_vars

\* C4: a request that finds the cache stale is validated by a store lookup,
\* also when its hash is in the cache: the cache check does not accept it.
C4_StaleLooksUp ==
    [][\A t \in Tasks :
         (Leaves(t, "cache") /\ task[t].stale)
            => (task'[t].pc = "lookup" /\ ~Accepted(last'))]_vars

\* C5: a request that presents a key accepted before (at bootstrap or by a
\* store lookup) and not revoked since, and finds the cache fresh, is
\* accepted by the cache check itself: no GetAPIKey call, whether the store
\* is available or not, and the store is left alone.
C5_CachedKeyServed ==
    [][\A t \in Tasks :
         (Leaves(t, "cache") /\ task[t].hash \in validated /\ ~task[t].stale)
            => /\ Accepted(last')
               /\ last'.hit
               /\ last'.lookups = 0
               /\ last'.hash = task[t].hash
               /\ task'[t].pc = "idle"
               /\ api_keys' = api_keys]_vars

\* C6: the key is the Bearer token of the Authorization header if there is
\* one and the X-API-Key header otherwise; a request with neither is
\* rejected with 401 "API key is required", unhashed and without a store
\* lookup; a request with a key in X-API-Key and no Bearer token is
\* authenticated with that key.
C6_ExtractBearerThenXKey ==
    last # NoRequest =>
       /\ last.key = (IF last.auth.bearer THEN last.auth.rest ELSE last.xkey)
       /\ (last.auth = NoAuth /\ last.xkey = "")
             => /\ last.resp = [status |-> StatusUnauthorized,
                                error |-> "unauthorized",
                                message |-> "API key is required"]
                /\ ~last.next /\ last.lookups = 0 /\ last.hash = ""
       /\ (~last.auth.bearer /\ last.xkey # "")
             => last.hash = hashAPIKey(last.xkey)

\* C7: the store lookup of an uncached hash rejects with 401 "unauthorized":
\* "Invalid or inactive API key" when the store has no record or an inactive
\* one, "API key has expired" when the record is active and expires_at is in
\* the past; the handler does not run and the cache is unchanged.
C7_LookupRejects ==
    [][\A t \in Tasks :
         (Leaves(t, "lookup") /\ storeUp) =>
            LET row == api_keys[task[t].hash] IN
            /\ (row = NoRow \/ ~row.is_active)
                  => /\ last'.resp = [status |-> StatusUnauthorized,
                                      error |-> "unauthorized",
                                      message |-> "Invalid or inactive API key"]
                     /\ ~last'.next /\ last'.hash = task[t].hash
                     /\ task'[t].pc = "idle" /\ apiKeys' = apiKeys
            /\ (row # NoRow /\ row.is_active /\ row.expires_at # NoExpiry
                  /\ row.expires_at < now)
                  => /\ last'.resp = [status |-> StatusUnauthorized,
                                      error |-> "unauthorized",
                                      message |-> "API key has expired"]
                     /\ ~last'.next /\ last'.hash = task[t].hash
                     /\ task'[t].pc = "idle" /\ apiKeys' = apiKeys]_vars

C7_Witness ==
    /\ last.resp.status = StatusUnauthorized
    /\ last.resp.message = "API key has expired"
    /\ ~last.next /\ last.lookups = 1
    /\ ~MapGet(apiKeys, last.hash)

\* C8: an uncached hash whose record is active and not expired passes the
\* store lookup; the request is then accepted, exactly that hash is added to
\* the cache, one usage update is started, and the hash is a cache hit from
\* then on.
C8_LookupAccepts ==
    [][\A t \in Tasks :
         /\ (Leaves(t, "lookup") /\ storeUp
               /\ api_keys[task[t].hash] # NoRow
               /\ api_keys[task[t].hash].is_active
               /\ (api_keys[task[t].hash].expires_at = NoExpiry
                     \/ api_keys[task[t].hash].expires_at >= now))
               => (task'[t].pc = "insert" /\ last' = NoRequest
                     /\ apiKeys' = apiKeys)
         /\ Leaves(t, "insert")
               => /\ Accepted(last') /\ ~last'.hit
                  /\ last'.hash = task[t].hash
                  /\ DOMAIN apiKeys' = DOMAIN apiKeys \cup {task[t].hash}
                  /\ \A h \in DOMAIN apiKeys' :
                        apiKeys'[h] = IF h = task[t].hash THEN TRUE
                                      ELSE apiKeys[h]
                  /\ pending' = pending + 1
                  /\ failing' = failing]_vars

\* C9: when GetAPIKey fails with a query error, the request is rejected with
\* 500 "internal_error" (not "unauthorized"), the handler does not run and
\* the cache is unchanged.
C9_StoreErrorIs500 ==
    [][\A t \in Tasks :
         (Leaves(t, "lookup") /\ ~storeUp)
            => /\ last'.resp.status = StatusInternalServerError
               /\ last'.resp.error = "internal_error"
               /\ ~last'.next /\ last'.hash = task[t].hash
               /\ task'[t].pc = "idle"
               /\ apiKeys' = apiKeys]_vars

C9_Witness ==
    /\ last.resp.status = StatusInternalServerError
    /\ last.resp.error = "internal_error"
    /\ ~last.next /\ last.lookups = 1
    /\ ~MapGet(apiKeys, last.hash)

\* C10: the usage update is detached from the request: the step that accepts
\* a request starts the update and runs the handler at once; a step of a
\* usage goroutine (success, failure or logging) changes no request, no
\* response and no cache entry; and a usage goroutine is started only by an
\* accepting request, never by a failed update.
C10_UsageDetached ==
    [][/\ \A t \in Tasks :
            (task[t].pc \in {"cache", "insert"} /\ task'[t].pc = "idle")
               => (Accepted(last') /\ pending' = pending + 1)
       /\ (pending' < pending \/ failing' # failing)
            => (task' = task /\ last' = NoRequest /\ apiKeys' = apiKeys)
       /\ pending' > pending
            => \E t \in Tasks : /\ task[t].pc \in {"cache", "insert"}
                                /\ task'[t].pc = "idle"
       /\ pending' + failing' <= pending + failing + 1]_vars

C10_Witness ==
    /\ Accepted(last) /\ last.hit
    /\ ~storeUp
    /\ failing > 0

\* C11: InitializeAPIKeys run again with the same configured keys, the store
\* answering, returns no error, leaves the table as it was (no second record
\* for any hash) and leaves every configured hash in the cache.
C11_InitIdempotent ==
    [][(phase = "boot" /\ phase' # "boot" /\ booted /\ storeUp)
          => /\ phase' = "serving"
             /\ api_keys' = api_keys
             /\ \A h \in ConfigHashes : MapGet(apiKeys', h)]_vars

\* the limiter has no token for a request that comes now
Exhausted == phase = "serving" /\ LimiterTokens < 1

\* C12: a request over the rate ends with 429 'rate_limit_exceeded', which is
\* not the 401 'unauthorized' of the authentication layer, and nothing of
\* AuthMiddleware runs for it: no goroutine enters the middleware, no key is
\* hashed, the store is not asked, no usage update is started, and the cache
\* and the table stay as they are.
C12_LimitedBeforeAuth ==
    [][/\ Exhausted
          => /\ \A t \in Tasks : task[t].pc = "idle" => task'[t].pc = "idle"
             /\ ~(last'.key = "" /\ last'.resp.status = StatusUnauthorized)
             /\ presented' = presented
       /\ last'.resp.status = StatusTooManyRequests
          => /\ Exhausted
             /\ last'.resp.error = "rate_limit_exceeded"
             /\ last'.resp.status # StatusUnauthorized
             /\ last'.resp.error # "unauthorized"
             /\ ~last'.next
             /\ last'.hash = ""
             /\ last'.lookups = 0
             /\ UNCHANGED <<task, pending, failing, apiKeys, lastSync, api_keys,
                            presented, validated>>]_vars

\* a request with a configured key was turned away by the limiter
C12_Witness ==
    /\ last.resp # NoResp
    /\ last.resp.status = StatusTooManyRequests
    /\ last.auth.rest = "ka"

\* C13: the limit is per client: a client is turned away with 429 only when
\* that client itself has sent at least its burst allowance of requests.
C13_PerClient ==
    [][(last'.resp # NoResp /\ last'.resp.status = StatusTooManyRequests)
         => sent[last'.client] >= RateLimitBurst]_vars

\* the filter request has ended with status 200
Answered == freq.pc = "done" /\ freq.resp.status = StatusOK

\* the row satisfies every predicate the query string of the request holds
Satisfies(row, q) ==
    /\ q.event_type # "" => row.event_type = q.event_type
    /\ q.event_name # "" => row.event_name = q.event_name
    /\ q.user_id # "" => row.user_id = q.user_id
    /\ q.session_id # "" => row.session_id = q.session_id
    /\ q.app_version # "" => row.app_version = q.app_version
    /\ q.priority # "" => row.priority = q.priority
    /\ q.provider_name # "" => row.provider = q.provider_name
    /\ q.start_time # NoTimeParam => q.start_time.at <= row.created_at
    /\ q.end_time # NoTimeParam => row.created_at <= q.end_time.at

Matches(q) == {i \in DOMAIN logs : Satisfies(logs[i], q)}

\* C14: a filter request that is answered counts and returns exactly the rows
\* that satisfy all the predicates present in it, each once (the page of the
\* requests here holds every row); an absent parameter adds no predicate and
\* the request without parameters gets every row.
C14_ExactMatch ==
    Answered =>
        /\ {freq.resp.logs[i] : i \in DOMAIN freq.resp.logs}
             = {logs[k] : k \in Matches(freq.q)}
        /\ Len(freq.resp.logs) = Cardinality(Matches(freq.q))
        /\ freq.resp.total_count = Cardinality(Matches(freq.q))
        /\ freq.q = BaseQuery => Len(freq.resp.logs) = Len(logs)

\* a request with two predicates was answered with the one row that
\* satisfies both, while another row of the table satisfies only one of them
C14_Witness ==
    /\ Answered
    /\ freq.q.event_type = "error"
    /\ freq.q.user_id = "u1"
    /\ Len(freq.resp.logs) = 1
    /\ \E k \in DOMAIN logs :
          logs[k].user_id = "u1" /\ logs[k].event_type # "error"

\* what is wrong with the parameters of the request in hand
BadType == freq.q.event_type # "" /\ freq.q.event_type \notin
              {"behavioral", "telemetry", "observability", "error", "performance"}
BadPriority == freq.q.priority # "" /\ freq.q.priority \notin {"normal", "high"}
BadStart == freq.q.start_time # NoTimeParam /\ freq.q.start_time.layout # "RFC3339"
BadEnd == freq.q.end_time # NoTimeParam /\ freq.q.end_time.layout # "RFC3339"

\* the request in hand has ended with 400 and the store was not asked
Refused ==
    /\ freq.pc = "done"
    /\ freq.resp.status = StatusBadRequest
    /\ freq.queries = 0
    /\ freq.sql = NoSQL

AllowList ==
    {"id", "event_id", "timestamp", "event_type", "event_name", "user_id",
     "session_id", "app_version", "priority", "created_at"}

\* C17: whatever sort_by holds, the request is answered and the column of
\* ORDER BY is in the allow-list: sort_by itself when the list holds it,
\* created_at otherwise.
C17_SortAllowList ==
    freq.pc = "done" =>
        /\ freq.resp.status = StatusOK
        /\ freq.sql.orderBy \in AllowList
        /\ freq.sql.orderBy = IF freq.q.sort_by \in AllowList
                              THEN freq.q.sort_by ELSE "created_at"

\* a request whose sort_by is SQL text was answered from a table with rows,
\* sorted by created_at
C17_Witness ==
    /\ Answered
    /\ freq.q.sort_by = "id; DROP TABLE analytics_logs"
    /\ freq.sql.orderBy = "created_at"
    /\ Len(freq.resp.logs) = MaxRows

\* the spellings of asc in every letter case
AscSpellings == {"asc", "ASC", "Asc", "aSc", "asC", "ASc", "AsC", "aSC"}

\* C18: the direction of ORDER BY is ASC for every spelling of asc in any
\* letter case and DESC for every other value of sort_order, absent included.
C18_SortOrderNormalized ==
    Answered =>
        /\ freq.sql.dir \in {"ASC", "DESC"}
        /\ freq.sql.dir = IF freq.q.sort_order \in AscSpellings
                          THEN "ASC" ELSE "DESC"

\* the page and the page size the parameters of the requests mean: the
\* number written when it is an integer in range, the default otherwise
MeantPage(p) ==
    CASE p = <<"2">> -> 2
      [] p = <<"+", "2">> -> 2
      [] p = <<"3">> -> 3
      [] p = Itoa(QuarterPage) -> QuarterPage
      [] OTHER -> 1

MeantPageSize(p) ==
    CASE p = <<"1">> -> 1
      [] p = <<"2">> -> 2
      [] p = <<"3">> -> 3
      [] p = <<"4">> -> 4
      [] p = <<"1", "0", "0", "0">> -> 1000
      [] OTHER -> 50

\* row a comes before row b in the order of the page query
Before(a, b) ==
    IF freq.sql.dir = "ASC"
    THEN SortKey(a, freq.sql.orderBy) < SortKey(b, freq.sql.orderBy)
    ELSE SortKey(a, freq.sql.orderBy) > SortKey(b, freq.sql.orderBy)

\* C19: the response holds at most page_size rows, which are the rows at the
\* places (page - 1) * page_size + 1 and following of the matching rows in
\* the order of the query, and total_pages is total_count / page_size rounded
\* up; page and page_size are the numbers given, or 1 and 50 when absent, not
\* a number or out of range.
C19_PageWindow ==
    Answered =>
        LET P == MeantPage(freq.q.page)
            S == MeantPageSize(freq.q.page_size)
            off == (P - 1) * S
            hit == {logs[k] : k \in Matches(freq.q)}
            T == Cardinality(hit)
            rows == freq.resp.logs
        IN /\ freq.resp.page = P
           /\ freq.resp.page_size = S
           /\ Len(rows) <= S
           /\ Len(rows) = IF T - off <= 0 THEN 0
                          ELSE IF T - off <= S THEN T - off ELSE S
           /\ \A i \in DOMAIN rows :
                 /\ rows[i] \in hit
                 /\ Cardinality({m \in hit : Before(m, rows[i])}) < off + i
                 /\ Cardinality({m \in hit : ~Before(rows[i], m)}) >= off + i
           /\ \A i, j \in DOMAIN rows : i < j => rows[i] # rows[j]
           /\ freq.resp.total_count = T
           /\ freq.resp.total_pages * S >= T
           /\ (freq.resp.total_pages - 1) * S < T

\* C20: a client that has fetched every page of a query, 1 to total_pages,
\* from a table that did not change holds every matching row exactly once,
\* whatever the sort column.
C20_PagesPartition ==
    scan.active /\ scan.complete =>
        /\ Len(scan.got) = Cardinality(Matches(scan.q))
        /\ {scan.got[i] : i \in DOMAIN scan.got}
             = {logs[k].id : k \in Matches(scan.q)}

\* the step takes a hash out of the cache
Shrinks == \E h \in Hashes : MapGet(apiKeys, h) /\ ~MapGet(apiKeys', h)

\* C28: while the process runs, a step that takes a hash out of the cache is
\* a call of RevokeAPIKey (no request goroutine moves, no bootstrap, no key
\* is generated, the table and the timestamp stay); no entry is ever false;
\* and refreshCache changes the last-refresh timestamp and nothing else of
\* the service.
C28_CacheGrows ==
    [][/\ Shrinks => /\ phase = "serving"
                     /\ adm.pc = "idle"
                     /\ UNCHANGED <<task, adm, lastSync, api_keys, pending,
                                    failing>>
       /\ \A h \in DOMAIN apiKeys' : apiKeys'[h]
       /\ \A t \in Tasks :
             Leaves(t, "refresh") => /\ lastSync' = now
                                     /\ UNCHANGED <<apiKeys, api_keys>>]_vars

\* a request has just run refreshCache on a stale cache that holds the
\* configured key and a generated key
C28_Witness ==
    /\ \E t \in Tasks : task[t].pc = "cache" /\ task[t].stale
    /\ lastSync = now
    /\ now > 0
    /\ \A h \in Hashes : MapGet(apiKeys, h)

\* C29: once RevokeAPIKey(keyHash) has returned, the hash is not in the
\* cache again and no request presenting the key of that hash is accepted.
C29_RevokedStaysOut ==
    \A h \in revoked :
        /\ ~MapGet(apiKeys, h)
        /\ ~(Accepted(last) /\ last.hash = h)

\* C30: the offset of the page query, (page - 1) * page_size as the handler
\* computes it, is not negative; the query has no OFFSET only when page 1
\* was asked for; and a response to a request for a later page does not
\* hold the first matching rows.
C30_OffsetInRange ==
    Answered =>
        LET P == MeantPage(freq.q.page)
            hit == {logs[k] : k \in Matches(freq.q)}
        IN /\ freq.sql.offset >= 0
           /\ ~freq.sql.hasOffset => P = 1
           /\ (P > 1 /\ hit # {}) =>
                 \A i \in DOMAIN freq.resp.logs :
                     \E m \in hit : Before(m, freq.resp.logs[i])

\* the rows the page query selects: the matches after the offset, up to the
\* limit
PageLen ==
    LET T == Cardinality(Matches(freq.q))
        skip == IF freq.sql.hasOffset THEN freq.sql.offset ELSE 0
    IN IF T - skip <= 0 THEN 0 ELSE Min(freq.sql.limit, T - skip)

\* C21: a call of GetFilteredLogs during which the store fails (at the count
\* query, at the page query, or while the rows of the page are read) ends
\* the request with 500 'database_error' and no rows; a response with
\* success = true holds every row of the page.
C21_FailureIsError ==
    freq.pc = "done" =>
        /\ freq.storeErr # "" =>
              /\ freq.resp.status = StatusInternalServerError
              /\ freq.resp.error = "database_error"
              /\ freq.resp.logs = <<>>
        /\ freq.resp.status = StatusOK => Len(freq.resp.logs) = PageLen

\* what decides the text of the queries: the filters present, sortBy,
\* sortOrder and whether there is an offset
Shape(filter) ==
    [present |-> <<filter.EventType # "", filter.EventName # "",
                   filter.UserID # "", filter.SessionID # "",
                   filter.AppVersion # "", filter.Priority # "",
                   filter.ProviderName # "", filter.StartTime.set,
                   filter.EndTime.set>>,
     sortBy |-> SortByOf(filter), sortOrder |-> SortOrderOf(filter),
     withOffset |-> filter.Offset > 0]

\* the pieces query text is made of
SqlText ==
    {"SELECT COUNT(*) FROM analytics_logs", "SELECT ... FROM analytics_logs",
     "WHERE", "AND", "ORDER BY", "LIMIT $", "OFFSET $", "ASC", "DESC",
     "event_type = $", "event_name = $", "user_id = $", "session_id = $",
     "app_version = $", "priority = $", "properties->'tags'->>'provider' = $",
     "created_at >= $", "created_at <= $"} \cup AllowList

\* the value of the request that belongs at the placeholder of the piece
BoundValue(txt, filter) ==
    CASE txt = "event_type = $" -> StrArg(filter.EventType)
      [] txt = "event_name = $" -> StrArg(filter.EventName)
      [] txt = "user_id = $" -> StrArg(filter.UserID)
      [] txt = "session_id = $" -> StrArg(filter.SessionID)
      [] txt = "app_version = $" -> StrArg(filter.AppVersion)
      [] txt = "priority = $" -> StrArg(filter.Priority)
      [] txt = "properties->'tags'->>'provider' = $" -> StrArg(filter.ProviderName)
      [] txt = "created_at >= $" -> TimeArg(filter.StartTime.t)
      [] txt = "created_at <= $" -> TimeArg(filter.EndTime.t)
      [] txt = "LIMIT $" -> IntArg(filter.Limit)
      [] txt = "OFFSET $" -> IntArg(filter.Offset)
      [] OTHER -> StrArg("")

\* every piece of the text is fixed text; the placeholders are numbered 1, 2,
\* ... in the order of the text, one for each argument, and the argument at
\* the number of a placeholder is the value that belongs there
Bound(text, args, filter) ==
    LET phs == {i \in DOMAIN text : text[i].ph # 0} IN
    /\ \A i \in DOMAIN text : text[i].txt \in SqlText
    /\ Cardinality(phs) = Len(args)
    /\ \A i \in phs :
          /\ text[i].ph = Cardinality({j \in phs : j <= i})
          /\ args[text[i].ph] = BoundValue(text[i].txt, filter)

\* C22: the text of the count query and of the page query that a request
\* sends is the text every request with the same filters present, the same
\* sortBy and sortOrder and the same presence of an offset sends, whatever
\* the values; the values, the limit and the offset are arguments, each at
\* the position its placeholder names.
C22_TextFromShape ==
    (freq.pc = "done" /\ freq.queries = 2) =>
        LET sent1 == QueryText(freq.filter) IN
        /\ Bound(sent1.countQuery, sent1.countArgs, freq.filter)
        /\ Bound(sent1.query, sent1.args, freq.filter)
        /\ \A q \in TextQueries :
              (QueryError(q) = "" /\ Shape(LogFilter(q)) = Shape(freq.filter))
                 => LET sent2 == QueryText(LogFilter(q)) IN
                    /\ sent2.countQuery = sent1.countQuery
                    /\ sent2.query = sent1.query

\* page 2 of the rows of one user and one event type after a time was asked
\* for with a sort_by that is not a column; the query went to the store, and
\* the family holds a request with other values of the same filters
C22_Witness ==
    /\ freq.pc = "done"
    /\ freq.queries = 2
    /\ freq.q.event_type = "error"
    /\ freq.q.user_id = "u1"
    /\ freq.q.start_time # NoTimeParam
    /\ freq.q.sort_by = "id; DROP TABLE analytics_logs"
    /\ freq.filter.Offset > 0
    /\ Len(QueryText(freq.filter).args) = 5
    /\ \E q \in TextQueries :
          /\ Shape(LogFilter(q)) = Shape(freq.filter)
          /\ LogFilter(q).EventType # freq.filter.EventType
          /\ LogFilter(q).StartTime # freq.filter.StartTime

\* C23: the INSERT of IngestSingle for an event_id that a row of the table
\* has, whatever was inserted since the request was validated, ends the
\* request with 409 'duplicate_event' and leaves the table as it was; no two
\* rows of the table have the same event_id.
C23_DuplicateIsConflict ==
    [][/\ (/\ ireq.pc = "insert"
           /\ ireq.kind = "single"
           /\ ireq'.pc = "done"
           /\ storeUp
           /\ Duplicate(logs, ireq.valid[1].EventID))
          => /\ ireq'.resp.status = StatusConflict
             /\ ireq'.resp.error = "duplicate_event"
             /\ logs' = logs
       /\ \A i, j \in DOMAIN logs' :
             i # j => logs'[i].event_id # logs'[j].event_id]_vars

\* a log with the event_id of a stored row and another priority was refused
\* with 409; the row is there once, with its own priority
C23_Witness ==
    /\ ireq.pc = "done"
    /\ ireq.kind = "single"
    /\ ireq.resp.status = StatusConflict
    /\ ireq.valid[1].EventID = "e1"
    /\ ireq.valid[1].Priority = "normal"
    /\ Cardinality({i \in DOMAIN logs : logs[i].event_id = "e1"}) = 1
    /\ \E i \in DOMAIN logs :
          logs[i].event_id = "e1" /\ logs[i].priority = "high"

\* C24: a step of a batch request either leaves the table as it was, and
\* then the request does not end with 201, or it is the commit that ends the
\* request with 201 and adds one row for every log of the body, in order,
\* after the rows the table had; so the table never holds some logs of a
\* batch without the others.
C24_BatchAllOrNothing ==
    [][(ireq' # ireq /\ ireq.pc # "idle" /\ ireq.kind = "batch") =>
          \/ /\ logs' = logs
             /\ ireq'.pc = "done" => ireq'.resp.status # StatusCreated
          \/ /\ ireq'.pc = "done"
             /\ ireq'.resp.status = StatusCreated
             /\ Len(logs') = Len(logs) + Len(ireq.body)
             /\ SubSeq(logs', 1, Len(logs)) = logs
             /\ \A k \in DOMAIN ireq.body :
                   logs'[Len(logs) + k].event_id = ireq.body[k].EventID]_vars

\* a batch of e2 and e1 ended with 500 over a table that holds e1: e2, whose
\* statement had succeeded in the transaction, is not in the table
C24_Witness ==
    /\ ireq.pc = "done"
    /\ ireq.kind = "batch"
    /\ Len(ireq.body) = 2
    /\ ireq.body[1].EventID = "e2"
    /\ ireq.body[2].EventID = "e1"
    /\ ireq.resp.status = StatusInternalServerError
    /\ Duplicate(logs, "e1")
    /\ ~Duplicate(logs, "e2")

\* C25: a batch request with no log ends with 400 'empty_batch' and one
\* with more than 1000 logs with 400 'batch_too_large'; in both cases no log
\* was validated (the response has no validation error, also when a log of
\* the body is not valid) and the store was not called; a batch of 1 to 1000
\* logs gets neither code.
C25_BatchSize ==
    (ireq.pc # "idle" /\ ireq.kind = "batch") =>
        /\ Len(ireq.body) = 0 =>
              /\ ireq.pc = "done"
              /\ ireq.resp = IngestResp(StatusBadRequest, "empty_batch", <<>>)
              /\ ireq.valid = <<>>
        /\ Len(ireq.body) > 1000 =>
              /\ ireq.pc = "done"
              /\ ireq.resp = IngestResp(StatusBadRequest, "batch_too_large", <<>>)
              /\ ireq.valid = <<>>
        /\ Len(ireq.body) \in 1 .. 1000 =>
              ireq.resp.error \notin {"empty_batch", "batch_too_large"}

\* a batch of 1000 valid logs ended with 201 and the table holds its rows
C25_Witness ==
    /\ ireq.pc = "done"
    /\ ireq.kind = "batch"
    /\ Len(ireq.body) = 1000
    /\ ireq.resp.status = StatusCreated
    /\ Len(logs) = 1000

\* C27: every row of the table has a non-empty event_id that no other row
\* has, an event_type of the enumeration, the priority normal or high, and
\* documents, not NULL, in properties and device_info; the row of a request
\* that gave no priority has the priority normal, and the row of a request
\* that gave no properties or no device_info has the empty document there.
C27_StoredRowsValid ==
    /\ \A i \in DOMAIN logs :
          /\ logs[i].event_id # ""
          /\ \A j \in DOMAIN logs : logs[j].event_id = logs[i].event_id => i = j
          /\ logs[i].event_type \in
                {"behavioral", "telemetry", "observability", "error", "performance"}
          /\ logs[i].priority \in {"normal", "high"}
          /\ logs[i].properties # SqlNull
          /\ logs[i].device_info # SqlNull
    /\ (ireq.pc = "done" /\ ireq.resp.status = StatusCreated) =>
          \A k \in DOMAIN ireq.body :
             \E i \in DOMAIN logs :
                /\ logs[i].event_id = ireq.body[k].EventID
                /\ ireq.body[k].Priority = "" => logs[i].priority = "normal"
                /\ ireq.body[k].Properties = NilJSONB => logs[i].properties = "{}"
                /\ ireq.body[k].DeviceInfo = NilJSONB => logs[i].device_info = "{}"

\* a single request and a batch have stored logs given without priority,
\* properties and device_info
C27_Witness ==
    /\ ireq.pc = "done"
    /\ ireq.kind = "single"
    /\ ireq.resp.status = StatusCreated
    /\ ireq.body[1].Priority = ""
    /\ ireq.body[1].Properties = NilJSONB
    /\ ireq.body[1].DeviceInfo = NilJSONB
    /\ \E i \in DOMAIN logs :
          /\ logs[i].event_id = "e2"
          /\ logs[i].event_type = "telemetry"
          /\ logs[i].priority = "normal"
          /\ logs[i].properties = "{}"

\* the fields of a log of a request body that are not valid
Offending(log) ==
    (IF log.EventID = "" THEN {"EventID"} ELSE {})
    \cup (IF log.EventType \notin {"behavioral", "telemetry", "observability",
                                    "error", "performance"}
          THEN {"EventType"} ELSE {})
    \cup (IF log.EventName = "" THEN {"EventName"} ELSE {})
    \cup (IF log.Priority \notin {"", "normal", "high"} THEN {"Priority"} ELSE {})

\* the fields the response names
Named(resp) == {resp.details[i].Field : i \in DOMAIN resp.details}

\* the error codes of the parameters of the filter request that are not valid
OffendingParams(q) ==
    (IF q.start_time # NoTimeParam /\ q.start_time.layout # "RFC3339"
     THEN {"invalid_start_time"} ELSE {})
    \cup (IF q.end_time # NoTimeParam /\ q.end_time.layout # "RFC3339"
          THEN {"invalid_end_time"} ELSE {})
    \cup (IF q.event_type # "" /\ q.event_type \notin
                {"behavioral", "telemetry", "observability", "error", "performance"}
          THEN {"invalid_event_type"} ELSE {})
    \cup (IF q.priority # "" /\ q.priority \notin {"normal", "high"}
          THEN {"invalid_priority"} ELSE {})

\* C26: the step in which a request is refused for its input (400 of a
\* single ingest, of a batch ingest after the size checks, of a filter
\* query) leaves the table as it was, and the response names every field or
\* parameter that is not valid.
C26_AllFieldsListed ==
    [][/\ (ireq' # ireq /\ ireq'.pc = "done"
           /\ ireq'.resp.error = "validation_error")
          => /\ logs' = logs
             /\ ireq'.kind = "single" =>
                   Named(ireq'.resp) = Offending(ireq'.body[1])
             /\ ireq'.kind = "batch" =>
                   Named(ireq'.resp) =
                      UNION {{"logs[" \o ToString(k - 1) \o "]." \o f :
                                f \in Offending(ireq'.body[k])} :
                             k \in DOMAIN ireq'.body}
       /\ (freq' # freq /\ freq'.pc = "done"
           /\ freq'.resp.status = StatusBadRequest)
          => /\ logs' = logs
             /\ freq'.queries = 0
             /\ OffendingParams(freq'.q) = {freq'.resp.error}]_vars

====
